---- MODULE Spec2Model ----
(***************************************************************************)
(* Caves of Skramis: the turn engine (src/src/game/gameEngine.ts), the     *)
(* dungeon generator (src/src/game/dungeonGenerator.ts), the save-code     *)
(* restore (src/src/utils/saveCode.ts) and the keyboard handler            *)
(* (src/src/index.ts), as a state machine.                                 *)
(***************************************************************************)
EXTENDS Integers, Sequences, FiniteSets, TLC

VARIABLES
  state,      \* GameEngine.state: player (position, stats, activeEffects), currentFloor, seed
  dungeon,    \* GameEngine.dungeon: width, height, tiles, entities
  result,     \* the GameAction returned by the last movePlayer call
  trace,      \* what the last handler call did inside: enemy turn, enemy moves and attacks
  input,      \* the key of the last keyboard event
  inputs      \* number of keyboard events handled so far

vars == <<state, dungeon, result, trace, input, inputs>>

----------------------------------------------------------------------------
(* Bounds of the model *)

GridWidth == 26       \* scaled-down map width (the engine asks for 50)
GridHeight == 21      \* scaled-down map height (the engine asks for 50)
MaxInputs == 7        \* keyboard events explored per game
MaxFloor == 2         \* deepest floor explored
MaxEnemyLevel == 22   \* deepest floor whose kill reward is explored
MaxLevel == 3         \* highest player level explored in the progression model
MaxEffects == 2       \* multiplier effects a player holds at most in the effects model
MaxDuration == 2      \* longest remaining duration of an effect in the effects model
FirstReplace == 4     \* input events handled before a new game or a load is explored
MaxLayout == 1728     \* floors of the layout seed whose generation is explored
MaxCrowdFloor == 40   \* floors of the crowded seed whose generation is explored
PathWidth == 3        \* width of the grids the path searches are explored on
PathHeight == 3       \* height of those grids
MaxMapCode == 511     \* wall patterns of those grids, as bit codes
MaxCorridor == 6      \* longest straight corridor searched
MaxDistance == 3      \* largest maximum distance passed to the flood fill
MaxSaveLevel == 3     \* highest level field of the save codes of the restore model
MaxSaveFloor == 2     \* highest floor field of those save codes

(* Program constants *)

attempts == 30
minRoomSize == 4
maxRoomSize == 10
DetectionRadius == 8
ExperiencePerLevel == 100
ExperienceReward == 10

WALL == "wall"
FLOOR == "floor"

Max(a, b) == IF a > b THEN a ELSE b
Min(a, b) == IF a < b THEN a ELSE b

Pos(px, py) == [x |-> px, y |-> py]

NoStats == [maxHealth |-> 0, health |-> 0, attack |-> 0, defense |-> 0,
            level |-> 0, experience |-> 0]

----------------------------------------------------------------------------
(* Configuration: PICKUPS *)

PICKUPS ==
  << [id |-> "health_potion", type |-> "health", num |-> 1, den |-> 2, duration |-> 0],
     [id |-> "damage_power_up", type |-> "damage_multiplier", num |-> 2, den |-> 1, duration |-> 1] >>

EnemyTypes == << "goblin", "orc", "troll", "skeleton", "wraith" >>

----------------------------------------------------------------------------
(* Seeded random source: a sub-seed (seed, floor) fixes the sequence of    *)
(* raw draws; nextInt and choose map the next raw draw into their range.   *)

Seeds == {"a", "b", "c", "d"}

\* the seed whose floors run through the room layouts: floor n + 1 draws three
\* candidates from the base-12 digits of n, digit d giving the width draw
\* (d \div 6) % 2, the height draw 0, the x draw 5 * (d % 3) and the y draw
\* 5 * ((d \div 3) % 2)
LayoutSeed == "r"

LayoutCandidate(d) == << (d \div 6) % 2, 0, 5 * (d % 3), 5 * ((d \div 3) % 2) >>

LayoutDraws(floor) ==
  LET n == floor - 1
  IN  LayoutCandidate(n % 12) \o LayoutCandidate((n \div 12) % 12)
        \o LayoutCandidate((n \div 144) % 12)

\* the seed whose floors are crowded: floor f draws 1 + (7f % 20) candidates of
\* the smallest size on distinct cells of a 5 x 4 grid of cells, and its entity
\* phase draws from a sequence that depends on f (a constant one on every
\* fifth floor)
CrowdSeed == "g"

CrowdCandidates(floor) == 1 + ((7 * floor) % 20)

CrowdCell(k) == (3 * k) % 20

CrowdRoomDraws(floor) ==
  [i \in 1..(4 * CrowdCandidates(floor)) |->
     LET cell == CrowdCell((i - 1) \div 4)
     IN  IF (i - 1) % 4 = 2 THEN 5 * (cell % 5)
         ELSE IF (i - 1) % 4 = 3 THEN 5 * (cell \div 5)
         ELSE 0]

CrowdEntityDraws(floor) ==
  IF floor % 5 = 0 THEN << 0, 0, 0 >>
  ELSE [k \in 1..23 |-> (5 * floor + 3 * k * k + 7 * k) % 13]

\* raw draws of the room phase: width, height, x, y of each candidate
RoomDraws(seed, floor) ==
  IF seed = LayoutSeed THEN LayoutDraws(floor)
  ELSE IF seed = CrowdSeed THEN CrowdRoomDraws(floor)
  ELSE IF seed = "a"
  THEN IF floor % 2 = 1
       THEN << 0, 0, 10, 0,   0, 0, 0, 0,   0, 0, 5, 0 >>
       ELSE << 0, 0, 0, 0,    0, 0, 5, 0,   1, 0, 3, 0,   0, 0, 10, 0 >>
  ELSE IF seed = "b"
  THEN IF floor % 2 = 1
       THEN << 1, 0, 5, 0,    0, 0, 0, 0 >>
       ELSE << 1, 0, 0, 0,    0, 0, 6, 0 >>
  ELSE IF seed = "c"
  THEN IF floor % 2 = 1
       THEN << 0, 0, 10, 0,   0, 0, 0, 0,   0, 0, 5, 0 >>
       ELSE << 0, 0, 0, 0,    0, 1, 6, 0 >>
  ELSE IF floor % 2 = 1
       THEN << 0, 0, 5, 0,    0, 0, 10, 0,  0, 0, 0, 0 >>
       ELSE << 0, 0, 10, 0,   0, 0, 0, 0,   0, 0, 5, 0 >>

\* raw draws of the entity phase: x, y, type of each enemy, then room, x, y
\* (and pickup, when the tile is free) of each item attempt
EntityDraws(seed, floor) ==
  IF seed = LayoutSeed
  THEN << 0, 0, 0,   1, 1, 1,   0, 1, 2,   1, 0, 0, 1,   0, 1, 1, 0 >>
  ELSE IF seed = CrowdSeed THEN CrowdEntityDraws(floor)
  ELSE IF seed = "a"
  THEN IF floor % 2 = 1
       THEN << 1, 1, 0,   0, 0, 1,   0, 0, 0, 1 >>
       ELSE << 0, 1, 2,   1, 1, 3,   0, 0, 1,   0, 1, 0, 0 >>
  ELSE IF seed = "b"
  THEN IF floor % 2 = 1
       THEN << 0, 1, 4 >>
       ELSE << 1, 0, 1 >>
  ELSE IF seed = "c"
  THEN IF floor % 2 = 1
       THEN << 0, 1, 0,   0, 0, 1,   0, 0, 0, 0 >>
       ELSE << 0, 0, 3 >>
  ELSE IF floor % 2 = 1
       THEN << 0, 0, 2,   1, 1, 3,   1, 0, 0, 1 >>
       ELSE << 1, 0, 1,   0, 1, 0,   0, 0, 0, 1 >>

Raw(sub, k) ==
  LET rd == RoomDraws(sub[1], sub[2])
      ed == EntityDraws(sub[1], sub[2])
  IN  IF k <= 4 * attempts
      THEN rd[((k - 1) % Len(rd)) + 1]
      ELSE ed[((k - 4 * attempts - 1) % Len(ed)) + 1]

nextInt(min, max, raw) == min + (raw % (max - min + 1))

choose(list, raw) == list[(raw % Len(list)) + 1]

----------------------------------------------------------------------------
(* Dungeon generator *)

\* variant: the boxes are compared without the one-tile buffer
roomsOverlap_NoBuffer(room1, room2) ==
  /\ room1.x < room2.x + room2.width
  /\ room1.x + room1.width > room2.x
  /\ room1.y < room2.y + room2.height
  /\ room1.y + room1.height > room2.y

roomsOverlap(room1, room2) ==
  /\ room1.x < room2.x + room2.width + 1
  /\ room1.x + room1.width + 1 > room2.x
  /\ room1.y < room2.y + room2.height + 1
  /\ room1.y + room1.height + 1 > room2.y

\* candidate i (0-based) drawn from the stream: four draws in a fixed order
Candidate(sub, i) ==
  LET w == nextInt(minRoomSize, maxRoomSize, Raw(sub, 4 * i + 1))
      h == nextInt(minRoomSize, maxRoomSize, Raw(sub, 4 * i + 2))
  IN  [x |-> nextInt(1, GridWidth - w - 1, Raw(sub, 4 * i + 3)),
       y |-> nextInt(1, GridHeight - h - 1, Raw(sub, 4 * i + 4)),
       width |-> w, height |-> h]

\* variant: the candidate is pushed before the overlap loop runs over the rooms
RECURSIVE generateRoomsFrom_PushedFirst(_, _, _)
generateRoomsFrom_PushedFirst(sub, i, rooms) ==
  IF i >= attempts THEN rooms
  ELSE LET newRoom == Candidate(sub, i)
           overlaps == \/ roomsOverlap(newRoom, newRoom)
                       \/ \E j \in 1..Len(rooms) : roomsOverlap(newRoom, rooms[j])
       IN  generateRoomsFrom_PushedFirst(sub, i + 1,
                                         IF overlaps THEN rooms ELSE Append(rooms, newRoom))

RECURSIVE generateRoomsFrom(_, _, _)
generateRoomsFrom(sub, i, rooms) ==
  IF i >= attempts THEN rooms
  ELSE LET newRoom == Candidate(sub, i)
           overlaps == \E j \in 1..Len(rooms) : roomsOverlap(newRoom, rooms[j])
       IN  generateRoomsFrom(sub, i + 1,
                             IF overlaps THEN rooms ELSE Append(rooms, newRoom))

generateRooms_PushedFirst(sub) == generateRoomsFrom_PushedFirst(sub, 0, <<>>)

generateRooms(sub) == generateRoomsFrom(sub, 0, <<>>)

AllWalls == [y \in 0..(GridHeight - 1) |-> [x \in 0..(GridWidth - 1) |-> WALL]]

carveRoom(tiles, room) ==
  [y \in DOMAIN tiles |-> [x \in DOMAIN tiles[y] |->
     IF /\ y >= room.y /\ y < room.y + room.height
        /\ x >= room.x /\ x < room.x + room.width
     THEN FLOOR ELSE tiles[y][x]]]

\* variant: the halves are rounded up
getRoomCenter_RoundUp(room) ==
  Pos((2 * room.x + room.width + 1) \div 2, (2 * room.y + room.height + 1) \div 2)

getRoomCenter(room) ==
  Pos((2 * room.x + room.width) \div 2, (2 * room.y + room.height) \div 2)

\* variant: the vertical run is carved on the start column
carveCorridor_StartColumn(tiles, start, end) ==
  [y \in DOMAIN tiles |-> [x \in DOMAIN tiles[y] |->
     IF \/ (y = start.y /\ x >= Min(start.x, end.x) /\ x <= Max(start.x, end.x))
        \/ (x = start.x /\ y >= Min(start.y, end.y) /\ y <= Max(start.y, end.y))
     THEN FLOOR ELSE tiles[y][x]]]

\* one L-shaped corridor: horizontal run on the start row, vertical run on the end column
carveCorridor(tiles, start, end) ==
  [y \in DOMAIN tiles |-> [x \in DOMAIN tiles[y] |->
     IF \/ (y = start.y /\ x >= Min(start.x, end.x) /\ x <= Max(start.x, end.x))
        \/ (x = end.x /\ y >= Min(start.y, end.y) /\ y <= Max(start.y, end.y))
     THEN FLOOR ELSE tiles[y][x]]]

RECURSIVE carveRoomsFrom(_, _, _)
carveRoomsFrom(tiles, rooms, i) ==
  IF i > Len(rooms) THEN tiles
  ELSE carveRoomsFrom(carveRoom(tiles, rooms[i]), rooms, i + 1)

RECURSIVE connectRoomsFrom(_, _, _)
connectRoomsFrom(tiles, rooms, i) ==
  IF i > Len(rooms) - 1 THEN tiles
  ELSE connectRoomsFrom(
         carveCorridor(tiles, getRoomCenter(rooms[i]), getRoomCenter(rooms[i + 1])),
         rooms, i + 1)

connectRooms(tiles, rooms) == connectRoomsFrom(tiles, rooms, 1)

\* variant: the position is drawn from one column and row further out
getRandomPositionInRoom_Outside(room, rawX, rawY) ==
  Pos(nextInt(room.x - 1, room.x + room.width - 2, rawX),
      nextInt(room.y - 1, room.y + room.height - 2, rawY))

\* two draws, x then y, strictly inside the room
getRandomPositionInRoom(room, rawX, rawY) ==
  Pos(nextInt(room.x + 1, room.x + room.width - 2, rawX),
      nextInt(room.y + 1, room.y + room.height - 2, rawY))

StairsEntity(center) ==
  [id |-> <<"stairs", 0>>, type |-> "stairs", position |-> center,
   enemyType |-> "", stats |-> NoStats, itemId |-> ""]

EnemyEntity(i, position, enemyType, floor) ==
  [id |-> <<"enemy", i>>, type |-> "enemy", position |-> position,
   enemyType |-> enemyType,
   stats |-> [maxHealth |-> 20 + floor * 10, health |-> 20 + floor * 10,
              attack |-> 3 + floor * 2, defense |-> 1 + floor,
              level |-> floor, experience |-> 0],
   itemId |-> ""]

ItemEntity(n, position, pickup) ==
  [id |-> <<"item", n>>, type |-> "item", position |-> position,
   enemyType |-> "", stats |-> NoStats, itemId |-> pickup.id]

\* variant: the enemy count is capped by the floor alone, not by 15
RECURSIVE placeEnemies_NoCap(_, _, _, _, _)
placeEnemies_NoCap(sub, rooms, floor, i, g) ==
  IF ~(i < 3 + floor * 2 /\ i < Len(rooms) - 1) THEN g
  ELSE LET room == rooms[i + 2]
           position == getRandomPositionInRoom(room, Raw(sub, g.k), Raw(sub, g.k + 1))
           enemyType == choose(EnemyTypes, Raw(sub, g.k + 2))
       IN  placeEnemies_NoCap(sub, rooms, floor, i + 1,
             [entities |-> Append(g.entities, EnemyEntity(i, position, enemyType, floor)),
              k |-> g.k + 3])

\* the enemy loop: enemy i in room i+1 (0-based), three draws each; g = [entities, k]
RECURSIVE placeEnemies(_, _, _, _, _)
placeEnemies(sub, rooms, floor, i, g) ==
  IF ~(i < Min(3 + floor * 2, 15) /\ i < Len(rooms) - 1) THEN g
  ELSE LET room == rooms[i + 2]
           position == getRandomPositionInRoom(room, Raw(sub, g.k), Raw(sub, g.k + 1))
           enemyType == choose(EnemyTypes, Raw(sub, g.k + 2))
       IN  placeEnemies(sub, rooms, floor, i + 1,
             [entities |-> Append(g.entities, EnemyEntity(i, position, enemyType, floor)),
              k |-> g.k + 3])

\* variant: the occupancy test looks at enemies and items, not at the stairs
RECURSIVE placeItems_OverStairs(_, _, _, _)
placeItems_OverStairs(sub, rooms, itemCount, g) ==
  IF ~(g.itemsPlaced < itemCount /\ g.tries < itemCount * 10 /\ Len(rooms) > 1) THEN g
  ELSE LET roomIndex == nextInt(1, Len(rooms) - 1, Raw(sub, g.k))
           room == rooms[roomIndex + 1]
           position == getRandomPositionInRoom(room, Raw(sub, g.k + 1), Raw(sub, g.k + 2))
           occupied == \E j \in 1..Len(g.entities) :
                         /\ g.entities[j].type # "stairs"
                         /\ g.entities[j].position = position
       IN  IF occupied
           THEN placeItems_OverStairs(sub, rooms, itemCount,
                  [g EXCEPT !.k = @ + 3, !.tries = @ + 1])
           ELSE placeItems_OverStairs(sub, rooms, itemCount,
                  [entities |-> Append(g.entities,
                       ItemEntity(g.itemsPlaced, position, choose(PICKUPS, Raw(sub, g.k + 3)))),
                   k |-> g.k + 4,
                   itemsPlaced |-> g.itemsPlaced + 1,
                   tries |-> g.tries + 1])

\* the item loop; g = [entities, k, itemsPlaced, tries]
RECURSIVE placeItems(_, _, _, _)
placeItems(sub, rooms, itemCount, g) ==
  IF ~(g.itemsPlaced < itemCount /\ g.tries < itemCount * 10 /\ Len(rooms) > 1) THEN g
  ELSE LET roomIndex == nextInt(1, Len(rooms) - 1, Raw(sub, g.k))
           room == rooms[roomIndex + 1]
           position == getRandomPositionInRoom(room, Raw(sub, g.k + 1), Raw(sub, g.k + 2))
           occupied == \E j \in 1..Len(g.entities) : g.entities[j].position = position
       IN  IF occupied
           THEN placeItems(sub, rooms, itemCount,
                  [g EXCEPT !.k = @ + 3, !.tries = @ + 1])
           ELSE placeItems(sub, rooms, itemCount,
                  [entities |-> Append(g.entities,
                       ItemEntity(g.itemsPlaced, position, choose(PICKUPS, Raw(sub, g.k + 3)))),
                   k |-> g.k + 4,
                   itemsPlaced |-> g.itemsPlaced + 1,
                   tries |-> g.tries + 1])

\* variant: the item count is capped by the number of rooms less one
itemCount_LessOne(rooms, floor) == Min(2 + (floor \div 2), Len(rooms) - 1)

\* the number of items the generator sets out to place
itemCount(rooms, floor) == Min(2 + (floor \div 2), Len(rooms) - 2)

\* the item loop started where the enemy loop g = [entities, k] ended
itemsAfter(sub, rooms, floor, g) ==
  placeItems(sub, rooms, itemCount(rooms, floor),
             [entities |-> g.entities, k |-> g.k, itemsPlaced |-> 0, tries |-> 0])

\* stairs, enemies and items of a floor, with the state of the item loop at
\* its end: [entities, k, itemsPlaced, tries]
entityPhase(sub, rooms, floor) ==
  LET withStairs == IF Len(rooms) > 0
                    THEN << StairsEntity(getRoomCenter(rooms[Len(rooms)])) >>
                    ELSE << >>
  IN  itemsAfter(sub, rooms, floor,
                 placeEnemies(sub, rooms, floor, 0,
                              [entities |-> withStairs, k |-> 4 * attempts + 1]))

generateEntities(sub, rooms, floor) == entityPhase(sub, rooms, floor).entities

generate(sub, floor) ==
  LET rooms == generateRooms(sub)
      tiles == connectRooms(carveRoomsFrom(AllWalls, rooms, 1), rooms)
  IN  [width |-> GridWidth, height |-> GridHeight,
       tiles |-> tiles, entities |-> generateEntities(sub, rooms, floor)]

----------------------------------------------------------------------------
(* Save code restore: the partial game state decodeSaveCode builds from    *)
(* the decoded fields l, e, f, s.                                          *)

DecodedState(data) ==
  [player |-> [position |-> Pos(0, 0),
               stats |-> [level |-> IF data.l = 0 THEN 1 ELSE data.l,
                          experience |-> data.e,
                          maxHealth |-> 100 + (data.l - 1) * 20,
                          health |-> 100 + (data.l - 1) * 20,
                          attack |-> 5 + (data.l - 1) * 2,
                          defense |-> 2 + (data.l - 1)],
               activeEffects |-> << >>],
   currentFloor |-> IF data.f = 0 THEN 1 ELSE data.f,
   seed |-> data.s]

\* the saves a game is restored from
Saves ==
  { [l |-> 15, e |-> 1490, f |-> 1, s |-> "a"],
    [l |-> 8, e |-> 780, f |-> 1, s |-> "b"],
    [l |-> 3, e |-> 40, f |-> 2, s |-> "a"],
    [l |-> 2, e |-> 110, f |-> 2, s |-> "b"],
    [l |-> 1, e |-> 90, f |-> 21, s |-> "c"] }

----------------------------------------------------------------------------
(* Game engine *)

createNewGameState(seed) ==
  [player |-> [position |-> Pos(0, 0),
               stats |-> [level |-> 1, experience |-> 0,
                          maxHealth |-> 100, health |-> 100,
                          attack |-> 5, defense |-> 2],
               activeEffects |-> << >>],
   currentFloor |-> 1,
   seed |-> seed]

\* first FLOOR tile in row-major order, or the position kept when there is none
FirstFloorTile(dg, keep) ==
  LET floorTiles == { p \in (0..(dg.width - 1)) \X (0..(dg.height - 1)) :
                        dg.tiles[p[2]][p[1]] = FLOOR }
  IN  IF floorTiles = {} THEN keep
      ELSE LET first == CHOOSE p \in floorTiles :
                          \A q \in floorTiles :
                            p[2] < q[2] \/ (p[2] = q[2] /\ p[1] <= q[1])
           IN  Pos(first[1], first[2])

\* variant: the generator is handed the player's level in place of the floor
generateDungeon_ByLevel(w) ==
  LET dg == generate(<<w.state.seed, w.state.currentFloor>>, w.state.player.stats.level)
  IN  [w EXCEPT !.dungeon = dg,
                !.state.player.position = FirstFloorTile(dg, w.state.player.position)]

\* w = [state, dungeon, trace]
generateDungeon(w) ==
  LET dg == generate(<<w.state.seed, w.state.currentFloor>>, w.state.currentFloor)
  IN  [w EXCEPT !.dungeon = dg,
                !.state.player.position = FirstFloorTile(dg, w.state.player.position)]

\* index of the first entity at pos of the given type ("" = any type), 0 when none
getEntityAt(dg, pos, type) ==
  LET Matches(i) == /\ dg.entities[i].position = pos
                    /\ (type = "" \/ dg.entities[i].type = type)
  IN  IF \E i \in 1..Len(dg.entities) : Matches(i)
      THEN CHOOSE i \in 1..Len(dg.entities) :
             Matches(i) /\ \A j \in 1..(i - 1) : ~Matches(j)
      ELSE 0

\* variant: drops every entity of the same kind as the one named
removeEntity_ByKind(dg, id) ==
  [dg EXCEPT !.entities = SelectSeq(dg.entities, LAMBDA e : e.id[1] # id[1])]

removeEntity(dg, id) ==
  [dg EXCEPT !.entities = SelectSeq(dg.entities, LAMBDA e : e.id # id)]

\* squared Euclidean distance: sqrt(d2) < r  <=>  d2 < r * r on the integers
getDistanceSquared(pos1, pos2) ==
  (pos2.x - pos1.x) * (pos2.x - pos1.x) + (pos2.y - pos1.y) * (pos2.y - pos1.y)

\* variant: the radius itself counts as in range
InDetectionRange_Inclusive(pos1, pos2) ==
  getDistanceSquared(pos1, pos2) <= DetectionRadius * DetectionRadius

InDetectionRange(pos1, pos2) ==
  getDistanceSquared(pos1, pos2) < DetectionRadius * DetectionRadius

\* variant: no floor of 1
Damage_NoFloor(attack, defense) == attack - defense

Damage(attack, defense) == Max(1, attack - defense)

RECURSIVE getActiveDamageMultiplierFrom(_, _)
getActiveDamageMultiplierFrom(effects, i) ==
  IF i > Len(effects) THEN 1
  ELSE (IF effects[i].type = "damage_multiplier" /\ effects[i].remainingDuration > 0
        THEN effects[i].value ELSE 1)
       * getActiveDamageMultiplierFrom(effects, i + 1)

\* variant: only the first active effect counts
getActiveDamageMultiplier_First(player) ==
  IF Len(player.activeEffects) = 0 THEN 1
  ELSE player.activeEffects[1].value

getActiveDamageMultiplier(player) ==
  IF Len(player.activeEffects) = 0 THEN 1
  ELSE getActiveDamageMultiplierFrom(player.activeEffects, 1)

\* variant: expired effects stay in the list
consumeEffects_KeepExpired(player) ==
  [player EXCEPT !.activeEffects =
     [i \in 1..Len(player.activeEffects) |->
        IF player.activeEffects[i].remainingDuration > 0
        THEN [player.activeEffects[i] EXCEPT !.remainingDuration = @ - 1]
        ELSE player.activeEffects[i]]]

consumeEffects(player) ==
  LET decreased == [i \in 1..Len(player.activeEffects) |->
                      IF player.activeEffects[i].remainingDuration > 0
                      THEN [player.activeEffects[i] EXCEPT !.remainingDuration = @ - 1]
                      ELSE player.activeEffects[i]]
  IN  [player EXCEPT !.activeEffects =
         SelectSeq(decreased, LAMBDA effect : effect.remainingDuration > 0)]

\* variant: the experience is reset instead of carried over
checkLevelUp_Reset(stats) ==
  LET expNeeded == stats.level * ExperiencePerLevel
  IN  IF stats.experience >= expNeeded
      THEN [level |-> stats.level + 1,
            experience |-> 0,
            maxHealth |-> stats.maxHealth + 20,
            health |-> stats.maxHealth + 20,
            attack |-> stats.attack + 2,
            defense |-> stats.defense + 1]
      ELSE stats

\* variant: the health is kept instead of restored
checkLevelUp_NoHeal(stats) ==
  LET expNeeded == stats.level * ExperiencePerLevel
  IN  IF stats.experience >= expNeeded
      THEN [level |-> stats.level + 1,
            experience |-> stats.experience - expNeeded,
            maxHealth |-> stats.maxHealth + 20,
            health |-> stats.health,
            attack |-> stats.attack + 2,
            defense |-> stats.defense + 1]
      ELSE stats

checkLevelUp(stats) ==
  LET expNeeded == stats.level * ExperiencePerLevel
  IN  IF stats.experience >= expNeeded
      THEN [level |-> stats.level + 1,
            experience |-> stats.experience - expNeeded,
            maxHealth |-> stats.maxHealth + 20,
            health |-> stats.maxHealth + 20,
            attack |-> stats.attack + 2,
            defense |-> stats.defense + 1]
      ELSE stats

\* the kill branch of attack, on the player's stats: reward, then the level-up check
gainExperience(stats, enemyLevel) ==
  checkLevelUp([stats EXCEPT !.experience = @ + ExperienceReward * enemyLevel])

----------------------------------------------------------------------------
(* Enemy AI: breadth-first search for the first step towards the player *)

Directions == << Pos(1, 0), Pos(-1, 0), Pos(0, 1), Pos(0, -1) >>

\* variant: tiles held by other enemies count as walkable
isWalkable_ThroughEnemies(dg, target, x, y) ==
  IF x < 0 \/ x >= dg.width \/ y < 0 \/ y >= dg.height THEN FALSE
  ELSE dg.tiles[y][x] # WALL

isWalkable(dg, target, x, y) ==
  IF x < 0 \/ x >= dg.width \/ y < 0 \/ y >= dg.height THEN FALSE
  ELSE IF dg.tiles[y][x] = WALL THEN FALSE
  ELSE IF x = target.x /\ y = target.y THEN TRUE
  ELSE getEntityAt(dg, Pos(x, y), "enemy") = 0

\* the four neighbours of current, in the order of Directions; b = [queue, visited, prev]
RECURSIVE bfsNeighbours(_, _, _, _, _)
bfsNeighbours(dg, target, current, d, b) ==
  IF d > Len(Directions) THEN b
  ELSE LET n == Pos(current.x + Directions[d].x, current.y + Directions[d].y)
       IN  IF ~isWalkable(dg, target, n.x, n.y) \/ n \in b.visited
           THEN bfsNeighbours(dg, target, current, d + 1, b)
           ELSE bfsNeighbours(dg, target, current, d + 1,
                  [queue |-> Append(b.queue, n),
                   visited |-> b.visited \cup {n},
                   prev |-> (n :> current) @@ b.prev])

RECURSIVE bfsLoop(_, _, _)
bfsLoop(dg, target, b) ==
  IF Len(b.queue) = 0 THEN b
  ELSE LET current == Head(b.queue)
       IN  IF current = target THEN b
           ELSE bfsLoop(dg, target,
                  bfsNeighbours(dg, target, current, 1, [b EXCEPT !.queue = Tail(@)]))

\* walk back from the target to the tile whose predecessor is start
RECURSIVE firstStep(_, _, _)
firstStep(prev, start, step) ==
  IF step \notin DOMAIN prev THEN step
  ELSE IF prev[step] = start THEN step
  ELSE firstStep(prev, start, prev[step])

Sign(n) == IF n = 0 THEN 0 ELSE IF n > 0 THEN 1 ELSE -1

\* [found, dx, dy]; found = FALSE stands for null
findNextStepTowards(dg, start, target) ==
  IF start = target THEN [found |-> FALSE, dx |-> 0, dy |-> 0]
  ELSE LET b == bfsLoop(dg, target,
                  [queue |-> << start >>, visited |-> {start}, prev |-> << >>])
       IN  IF target \notin b.visited THEN [found |-> FALSE, dx |-> 0, dy |-> 0]
           ELSE LET step == firstStep(b.prev, start, target)
                IN  IF step \notin DOMAIN b.prev
                    THEN [found |-> FALSE, dx |-> 0, dy |-> 0]
                    ELSE [found |-> TRUE,
                          dx |-> Sign(step.x - start.x),
                          dy |-> Sign(step.y - start.y)]

Event(ev, id, position, n) == [ev |-> ev, id |-> id, position |-> position, n |-> n]

\* variant: the player strikes back at an attacking enemy
moveEnemy_Retaliated(w, i, dx, dy) ==
  LET enemy == w.dungeon.entities[i]
      newPos == Pos(enemy.position.x + dx, enemy.position.y + dy)
  IN  IF \/ newPos.x < 0 \/ newPos.x >= w.dungeon.width
         \/ newPos.y < 0 \/ newPos.y >= w.dungeon.height
      THEN w
      ELSE IF w.dungeon.tiles[newPos.y][newPos.x] = WALL THEN w
      ELSE IF newPos = w.state.player.position
      THEN LET damage == Damage(enemy.stats.attack, w.state.player.stats.defense)
           IN  [w EXCEPT !.state.player.stats.health = @ - damage,
                         !.dungeon.entities[i].stats.health =
                            @ - Damage(w.state.player.stats.attack, enemy.stats.defense),
                         !.trace = Append(@, Event("enemyAttack", enemy.id, enemy.position, damage))]
      ELSE IF getEntityAt(w.dungeon, newPos, "enemy") # 0 THEN w
      ELSE [w EXCEPT !.dungeon.entities[i].position = newPos,
                     !.trace = Append(@, Event("enemyMove", enemy.id, newPos, 0))]

\* w = [state, dungeon, trace]; i is the enemy's index in the entity list
moveEnemy(w, i, dx, dy) ==
  LET enemy == w.dungeon.entities[i]
      newPos == Pos(enemy.position.x + dx, enemy.position.y + dy)
  IN  IF \/ newPos.x < 0 \/ newPos.x >= w.dungeon.width
         \/ newPos.y < 0 \/ newPos.y >= w.dungeon.height
      THEN w
      ELSE IF w.dungeon.tiles[newPos.y][newPos.x] = WALL THEN w
      ELSE IF newPos = w.state.player.position
      THEN LET damage == Damage(enemy.stats.attack, w.state.player.stats.defense)
           IN  [w EXCEPT !.state.player.stats.health = @ - damage,
                         !.trace = Append(@, Event("enemyAttack", enemy.id, enemy.position, damage))]
      ELSE IF getEntityAt(w.dungeon, newPos, "enemy") # 0 THEN w
      ELSE [w EXCEPT !.dungeon.entities[i].position = newPos,
                     !.trace = Append(@, Event("enemyMove", enemy.id, newPos, 0))]

enemyStep(w, i) ==
  LET enemy == w.dungeon.entities[i]
  IN  IF InDetectionRange(enemy.position, w.state.player.position)
      THEN LET nextStep == findNextStepTowards(w.dungeon, enemy.position,
                                               w.state.player.position)
           IN  IF nextStep.found THEN moveEnemy(w, i, nextStep.dx, nextStep.dy) ELSE w
      ELSE w

RECURSIVE enemyLoop(_, _, _)
enemyLoop(w, enemies, k) ==
  IF k > Len(enemies) THEN w
  ELSE enemyLoop(enemyStep(w, enemies[k]), enemies, k + 1)

\* the enemies of the floor in list order, by index (no entity is removed during the turn)
EnemyIndices(dg) ==
  SelectSeq([i \in 1..Len(dg.entities) |-> i], LAMBDA i : dg.entities[i].type = "enemy")

enemyTurn(w) ==
  enemyLoop([w EXCEPT !.trace = Append(@, Event("enemyTurn", <<"", 0>>,
                                              w.state.player.position, 0))],
            EnemyIndices(w.dungeon), 1)

----------------------------------------------------------------------------
(* Player actions *)

NoCombat == [present |-> FALSE, damage |-> 0, killed |-> FALSE, enemyDamage |-> 0]

GameAction(success, message, combat) ==
  [success |-> success, message |-> message, combat |-> combat]

\* r = [state, dungeon, trace, result]
Returns(w, res) ==
  [state |-> w.state, dungeon |-> w.dungeon, trace |-> w.trace, result |-> res]

\* variant: the dungeon is regenerated before the floor number is advanced
descendStairs_SameFloor(w) ==
  [generateDungeon(w) EXCEPT !.state.currentFloor = @ + 1]

descendStairs(w) ==
  generateDungeon([w EXCEPT !.state.currentFloor = @ + 1])

PickupConfig(itemId) ==
  LET hits == { i \in 1..Len(PICKUPS) : PICKUPS[i].id = itemId }
  IN  IF hits = {} THEN 0 ELSE CHOOSE i \in hits : \A j \in hits : i <= j

\* variant: the heal is not capped at the missing health
actualHeal_Uncapped(stats, pickupConfig) ==
  (stats.maxHealth * pickupConfig.num) \div pickupConfig.den

\* what a Health pickup restores
actualHeal(stats, pickupConfig) ==
  LET healAmount == (stats.maxHealth * pickupConfig.num) \div pickupConfig.den
  IN  Min(healAmount, stats.maxHealth - stats.health)

pickupItem(w, i) ==
  LET item == w.dungeon.entities[i]
      c == PickupConfig(item.itemId)
  IN  IF c = 0 THEN w
      ELSE LET pickupConfig == PICKUPS[c]
               removed == [w EXCEPT !.dungeon = removeEntity(w.dungeon, item.id)]
               stats == w.state.player.stats
           IN  IF pickupConfig.type = "health"
               THEN [removed EXCEPT !.state.player.stats.health =
                                      @ + actualHeal(stats, pickupConfig)]
               ELSE IF pickupConfig.type = "damage_multiplier"
               THEN [removed EXCEPT !.state.player.activeEffects =
                       Append(@, [id |-> pickupConfig.id,
                                  type |-> "damage_multiplier",
                                  value |-> pickupConfig.num \div pickupConfig.den,
                                  remainingDuration |->
                                    IF pickupConfig.duration = 0 THEN 1
                                    ELSE pickupConfig.duration])]
               ELSE removed

\* variant: the counterattack lands twice
counterattack_Twice(w, enemy) ==
  LET enemyDamage == Damage(enemy.stats.attack, w.state.player.stats.defense)
  IN  [w |-> [w EXCEPT !.state.player.stats.health = @ - 2 * enemyDamage],
       enemyDamage |-> enemyDamage]

\* the enemy's counterattack inside attack
counterattack(w, enemy) ==
  LET enemyDamage == Damage(enemy.stats.attack, w.state.player.stats.defense)
  IN  [w |-> [w EXCEPT !.state.player.stats.health = @ - enemyDamage],
       enemyDamage |-> enemyDamage]

\* what attack reports of a kill: the reward, and the level-up when there is one
\* (n of the levelUp event: the player's health before the level-up check)
killEvents(before, after, enemy) ==
  << Event("kill", enemy.id, enemy.position, ExperienceReward * enemy.stats.level) >>
  \o (IF after.level # before.level
      THEN << Event("levelUp", enemy.id, enemy.position, before.health) >>
      ELSE << >>)

\* variant: the enemy turn runs before attack returns
attackResult_EnemyTurn(w, damage, killed, enemyDamage) ==
  Returns(enemyTurn(w), GameAction(TRUE, "attack",
            [present |-> TRUE, damage |-> damage, killed |-> killed,
             enemyDamage |-> enemyDamage]))

\* the GameAction attack returns
attackResult(w, damage, killed, enemyDamage) ==
  Returns(w, GameAction(TRUE, "attack",
            [present |-> TRUE, damage |-> damage, killed |-> killed,
             enemyDamage |-> enemyDamage]))

attack(w, i) ==
  LET enemy == w.dungeon.entities[i]
      damageMultiplier == getActiveDamageMultiplier(w.state.player)
      playerAttack == w.state.player.stats.attack * damageMultiplier
      damage == Damage(playerAttack, enemy.stats.defense)
      health == enemy.stats.health - damage
      killed == health <= 0
      hit == [w EXCEPT !.dungeon.entities[i].stats.health = health]
      resolved == IF killed
                  THEN [hit EXCEPT !.dungeon = removeEntity(hit.dungeon, enemy.id),
                                   !.state.player.stats =
                                      gainExperience(@, enemy.stats.level),
                                   !.trace = @ \o killEvents(w.state.player.stats,
                                               gainExperience(w.state.player.stats,
                                                              enemy.stats.level),
                                               enemy)]
                  ELSE hit
      consumed == [resolved EXCEPT !.state.player = consumeEffects(@)]
      c == IF killed THEN [w |-> consumed, enemyDamage |-> 0]
           ELSE counterattack(consumed, enemy)
  IN  attackResult(c.w, damage, killed, c.enemyDamage)

\* variant: the enemy turn runs before the player has stepped
stepAndEnemyTurn_Before(w, newPos) ==
  [enemyTurn(w) EXCEPT !.state.player.position = newPos]

\* the tail of movePlayer: the player steps onto newPos, then the enemy turn runs
stepAndEnemyTurn(w, newPos) ==
  enemyTurn([w EXCEPT !.state.player.position = newPos])

\* variant: a refused move still gives the enemies their turn
blocked_EnemyTurn(w, message) ==
  Returns(enemyTurn(w), GameAction(FALSE, message, NoCombat))

\* a move that is refused: nothing changes
blocked(w, message) == Returns(w, GameAction(FALSE, message, NoCombat))

\* variant: the stairs are looked for before the enemy
movePlayer_StairsFirst(w, dx, dy) ==
  LET newPos == Pos(w.state.player.position.x + dx, w.state.player.position.y + dy)
  IN  IF \/ newPos.x < 0 \/ newPos.x >= w.dungeon.width
         \/ newPos.y < 0 \/ newPos.y >= w.dungeon.height
      THEN blocked(w, "Out of bounds")
      ELSE IF w.dungeon.tiles[newPos.y][newPos.x] = WALL
      THEN blocked(w, "There is a wall there")
      ELSE IF getEntityAt(w.dungeon, newPos, "stairs") # 0
      THEN Returns(descendStairs(w), GameAction(TRUE, "Descended", NoCombat))
      ELSE IF getEntityAt(w.dungeon, newPos, "enemy") # 0
      THEN attack(w, getEntityAt(w.dungeon, newPos, "enemy"))
      ELSE IF getEntityAt(w.dungeon, newPos, "item") # 0
      THEN Returns(stepAndEnemyTurn(pickupItem(w, getEntityAt(w.dungeon, newPos, "item")),
                                    newPos),
                   GameAction(TRUE, "pickup", NoCombat))
      ELSE Returns(stepAndEnemyTurn(w, newPos), GameAction(TRUE, "", NoCombat))

movePlayer(w, dx, dy) ==
  LET newPos == Pos(w.state.player.position.x + dx, w.state.player.position.y + dy)
  IN  IF \/ newPos.x < 0 \/ newPos.x >= w.dungeon.width
         \/ newPos.y < 0 \/ newPos.y >= w.dungeon.height
      THEN blocked(w, "Out of bounds")
      ELSE IF w.dungeon.tiles[newPos.y][newPos.x] = WALL
      THEN blocked(w, "There is a wall there")
      ELSE IF getEntityAt(w.dungeon, newPos, "enemy") # 0
      THEN attack(w, getEntityAt(w.dungeon, newPos, "enemy"))
      ELSE IF getEntityAt(w.dungeon, newPos, "stairs") # 0
      THEN Returns(descendStairs(w), GameAction(TRUE, "Descended", NoCombat))
      ELSE IF getEntityAt(w.dungeon, newPos, "item") # 0
      THEN Returns(stepAndEnemyTurn(pickupItem(w, getEntityAt(w.dungeon, newPos, "item")),
                                    newPos),
                   GameAction(TRUE, "pickup", NoCombat))
      ELSE Returns(stepAndEnemyTurn(w, newPos), GameAction(TRUE, "", NoCombat))

\* variant: the player counts as alive whatever the health
isPlayerAlive_Always(st) == st.player.stats.maxHealth > 0

isPlayerAlive(st) == st.player.stats.health > 0

----------------------------------------------------------------------------
(* Keyboard handler *)

Keys == {"arrowup", "arrowdown", "arrowleft", "arrowright", " "}

KeyDx(key) == IF key = "arrowleft" THEN -1 ELSE IF key = "arrowright" THEN 1 ELSE 0
KeyDy(key) == IF key = "arrowup" THEN -1 ELSE IF key = "arrowdown" THEN 1 ELSE 0

NoResult == GameAction(FALSE, "none", NoCombat)

World == [state |-> state, dungeon |-> dungeon, trace |-> << >>]

\* the engine call of a handler has returned r = [state, dungeon, trace, result]
EngineReturned(r) ==
  /\ r.state.currentFloor = state.currentFloor \/ r.state.currentFloor <= MaxFloor
  /\ state' = r.state
  /\ dungeon' = r.dungeon
  /\ result' = r.result
  /\ trace' = r.trace

\* a direction key: movePlayer(dx, dy)
HandleMoveKey(key) ==
  /\ inputs < MaxInputs
  /\ key # " "
  /\ isPlayerAlive(state)
  /\ EngineReturned(movePlayer(World, KeyDx(key), KeyDy(key)))
  /\ input' = key
  /\ inputs' = inputs + 1

\* the space bar: a message and a UI refresh, no engine call
HandleWaitKey ==
  /\ inputs < MaxInputs
  /\ isPlayerAlive(state)
  /\ input' = " "
  /\ inputs' = inputs + 1
  /\ result' = NoResult
  /\ trace' = << >>
  /\ UNCHANGED <<state, dungeon>>

\* any key while the player is dead: the handler returns at once
HandleKeyDead ==
  /\ inputs < MaxInputs
  /\ ~isPlayerAlive(state)
  /\ \E key \in Keys : input' = key
  /\ inputs' = inputs + 1
  /\ result' = NoResult
  /\ trace' = << >>
  /\ UNCHANGED <<state, dungeon>>

Constructed(st) ==
  LET w == generateDungeon([state |-> st,
                            dungeon |-> [width |-> 0, height |-> 0,
                                         tiles |-> << >>, entities |-> << >>],
                            trace |-> << >>])
  IN  /\ state = w.state
      /\ dungeon = w.dungeon

Init ==
  /\ \/ \E seed \in Seeds : Constructed(createNewGameState(seed))
     \/ \E data \in Saves : Constructed(DecodedState(data))
  /\ result = NoResult
  /\ trace = << >>
  /\ input = ""
  /\ inputs = 0

Next ==
  \/ \E key \in Keys : HandleMoveKey(key)
  \/ HandleWaitKey
  \/ HandleKeyDead

Spec == Init /\ [][Next]_vars

----------------------------------------------------------------------------
(* Pointer input, new game and save-code load: the whole input surface of  *)
(* the page around one engine.                                             *)

\* tiles a path may use: not Wall and not held by an enemy, the goal always allowed
PathTiles(dg, goal) ==
  LET held == { dg.entities[i].position :
                  i \in { j \in 1..Len(dg.entities) : dg.entities[j].type = "enemy" } }
  IN  { q \in (0..(dg.width - 1)) \X (0..(dg.height - 1)) :
          /\ dg.tiles[q[2]][q[1]] # WALL
          /\ (Pos(q[1], q[2]) = goal \/ Pos(q[1], q[2]) \notin held) }

\* the search front, widened layer by layer from the goal until it holds the
\* start: the result is the layer before, the tiles one step nearer to the goal
\* than the start ({} when the start is never reached)
RECURSIVE pathLayers(_, _, _, _, _)
pathLayers(frontier, before, seen, start, free) ==
  IF start \in frontier THEN before
  ELSE IF frontier = {} THEN {}
  ELSE LET next == { q \in UNION { { <<f[1] + 1, f[2]>>, <<f[1] - 1, f[2]>>,
                                     <<f[1], f[2] + 1>>, <<f[1], f[2] - 1>> } :
                                   f \in frontier } :
                       q \in free /\ q \notin seen }
       IN  pathLayers(next, frontier, seen \cup next, start, free)

\* the tiles a shortest path from start to goal may begin with (the search's
\* tie-break picks one of them); empty when there is no path
findPathFirstSteps(dg, start, goal) ==
  IF start = goal THEN {}
  ELSE IF \/ goal.x < 0 \/ goal.x >= dg.width \/ goal.y < 0 \/ goal.y >= dg.height
  THEN {}
  ELSE IF dg.tiles[goal.y][goal.x] = WALL THEN {}
  ELSE LET nearer == pathLayers({ <<goal.x, goal.y>> }, {}, { <<goal.x, goal.y>> },
                                <<start.x, start.y>>, PathTiles(dg, goal))
       IN  { n \in { Pos(start.x + Directions[d].x, start.y + Directions[d].y) :
                       d \in 1..Len(Directions) } : <<n.x, n.y>> \in nearer }

\* one step along a path to target: movePlayer towards the path's first tile
movePlayerToPosition(w, target, step) ==
  movePlayer(w, step.x - w.state.player.position.x, step.y - w.state.player.position.y)

\* the tiles clicked or tapped: the player's own, its four neighbours, the stairs
PointerTargets ==
  { state.player.position }
  \cup { Pos(state.player.position.x + Directions[d].x,
             state.player.position.y + Directions[d].y) : d \in 1..Len(Directions) }
  \cup { dungeon.entities[i].position :
           i \in { j \in 1..Len(dungeon.entities) : dungeon.entities[j].type = "stairs" } }

\* the handler has returned without an engine call, or the call changed nothing
NoEngineChange(res) ==
  /\ result' = res
  /\ trace' = << >>
  /\ UNCHANGED <<state, dungeon>>

\* the click or tap is past the handler's early returns: one step towards target
PointerStep(target, steps) ==
  IF steps = {}
  THEN NoEngineChange(GameAction(FALSE, "No path", NoCombat))
  ELSE \E step \in steps : EngineReturned(movePlayerToPosition(World, target, step))

\* a click or tap on a tile of the map: dropped when the player is dead, when the
\* tile is off the map or is the player's own; else one step towards the tile
HandlePointerInput(target) ==
  /\ inputs < MaxInputs
  /\ IF \/ ~isPlayerAlive(state)
        \/ target.x < 0 \/ target.x >= dungeon.width
        \/ target.y < 0 \/ target.y >= dungeon.height
        \/ target = state.player.position
     THEN NoEngineChange(NoResult)
     ELSE PointerStep(target, findPathFirstSteps(dungeon, state.player.position, target))
  /\ input' = "pointer"
  /\ inputs' = inputs + 1

\* the engine w = [state, dungeon, trace] takes the place of the current one
Installed(w) ==
  /\ state' = w.state
  /\ dungeon' = w.dungeon
  /\ result' = NoResult
  /\ trace' = << >>
  /\ inputs' = inputs + 1

\* a fresh engine is constructed from a (partial) game state
Replaced(st) ==
  Installed(generateDungeon([state |-> st,
                             dungeon |-> [width |-> 0, height |-> 0,
                                          tiles |-> << >>, entities |-> << >>],
                             trace |-> << >>]))

NewGame ==
  /\ inputs < MaxInputs
  /\ inputs >= FirstReplace
  /\ \E seed \in Seeds : Replaced(createNewGameState(seed))
  /\ input' = "newGame"

LoadSaveCode ==
  /\ inputs < MaxInputs
  /\ inputs >= FirstReplace
  /\ \E data \in Saves : Replaced(DecodedState(data))
  /\ input' = "load"

\* the page starts with the game restored from the floor-21 save
InitPage ==
  /\ Constructed(DecodedState([l |-> 1, e |-> 90, f |-> 21, s |-> "c"]))
  /\ result = NoResult
  /\ trace = << >>
  /\ input = ""
  /\ inputs = 0

NextPage ==
  \/ \E key \in Keys : HandleMoveKey(key)
  \/ HandleWaitKey
  \/ HandleKeyDead
  \/ \E target \in PointerTargets : HandlePointerInput(target)
  \/ NewGame
  \/ LoadSaveCode

SpecPage == InitPage /\ [][NextPage]_vars

----------------------------------------------------------------------------
(* Progression: the player's stats under the two effects combat has on    *)
(* them, a kill reward with its level-up check and an enemy's hit, for    *)
(* enemies of every level up to MaxEnemyLevel.                            *)

EnemyLevels == 1..MaxEnemyLevel

\* the kill branch of attack for an enemy of the given level
KillReward(enemyLevel) ==
  /\ isPlayerAlive(state)
  /\ state.player.stats.level <= MaxLevel
  /\ LET enemy == EnemyEntity(0, state.player.position, "goblin", enemyLevel)
         after == gainExperience(state.player.stats, enemyLevel)
     IN  /\ state' = [state EXCEPT !.player.stats = after]
         /\ trace' = killEvents(state.player.stats, after, enemy)
         /\ result' = GameAction(TRUE, "attack",
                         [present |-> TRUE, damage |-> enemy.stats.health,
                          killed |-> TRUE, enemyDamage |-> 0])
  /\ UNCHANGED <<dungeon, input, inputs>>

\* an enemy of the given level hits the player, who survives
EnemyHit(enemyLevel) ==
  /\ isPlayerAlive(state)
  /\ LET enemy == EnemyEntity(0, state.player.position, "goblin", enemyLevel)
         damage == Damage(enemy.stats.attack, state.player.stats.defense)
     IN  /\ state.player.stats.health - damage > 0
         /\ state' = [state EXCEPT !.player.stats.health = @ - damage]
         /\ trace' = << Event("enemyAttack", enemy.id, enemy.position, damage) >>
         /\ result' = NoResult
  /\ UNCHANGED <<dungeon, input, inputs>>

InitProgression ==
  /\ Constructed(createNewGameState("a"))
  /\ result = NoResult
  /\ trace = << >>
  /\ input = ""
  /\ inputs = 0

NextProgression ==
  \/ \E enemyLevel \in EnemyLevels : KillReward(enemyLevel)
  \/ EnemyHit(MaxEnemyLevel)

SpecProgression == InitProgression /\ [][NextProgression]_vars

----------------------------------------------------------------------------
(* Effects: the game of a level-2 player on floor 1 who already holds up   *)
(* to MaxEffects damage-multiplier effects, each good for up to            *)
(* MaxDuration more attacks, under the direction keys.                     *)

\* the active effect pickupItem builds from the damage-multiplier pickup
MultiplierEffect(remainingDuration) ==
  [id |-> PICKUPS[2].id, type |-> "damage_multiplier",
   value |-> PICKUPS[2].num \div PICKUPS[2].den,
   remainingDuration |-> remainingDuration]

EffectLists ==
  UNION { [1..n -> { MultiplierEffect(d) : d \in 1..MaxDuration }] : n \in 0..MaxEffects }

InitEffects ==
  /\ \E effects \in EffectLists :
       Constructed([DecodedState([l |-> 2, e |-> 150, f |-> 1, s |-> "d"])
                      EXCEPT !.player.activeEffects = effects])
  /\ result = NoResult
  /\ trace = << >>
  /\ input = ""
  /\ inputs = 0

NextEffects == \E key \in Keys : HandleMoveKey(key)

SpecEffects == InitEffects /\ [][NextEffects]_vars

----------------------------------------------------------------------------
(* Floor layouts: the page as started, into which the save code of one     *)
(* floor of the layout seed is loaded.                                     *)

LayoutSave(f) == [l |-> 1, e |-> 0, f |-> f, s |-> LayoutSeed]

LoadLayoutCode ==
  /\ state.seed \in Seeds
  /\ \E f \in 1..MaxLayout : Replaced(DecodedState(LayoutSave(f)))
  /\ input' = "load"

CrowdSave(f) == [l |-> 1, e |-> 0, f |-> f, s |-> CrowdSeed]

LoadCrowdCode ==
  /\ state.seed \in Seeds
  /\ \E f \in 1..MaxCrowdFloor : Replaced(DecodedState(CrowdSave(f)))
  /\ input' = "load"

NextFloors == LoadLayoutCode \/ LoadCrowdCode

SpecFloors == InitPage /\ [][NextFloors]_vars

----------------------------------------------------------------------------
(* Save codes as text: a string is the sequence of its character codes.   *)
(* encodeGameState writes the JSON of l, e, f, s, t, its base64 form, a    *)
(* '-' and the checksum of the base64 form.                                *)

\* the decimal digits of a number n >= 0, and a number as JSON writes it
RECURSIVE Digits(_)
Digits(n) == IF n < 10 THEN << 48 + n >> ELSE Append(Digits(n \div 10), 48 + (n % 10))

NumberText(n) == IF n < 0 THEN << 45 >> \o Digits(0 - n) ELSE Digits(n)

\* a string as JSON writes it: quoted, '"' and '\' escaped by a '\'
RECURSIVE Escaped(_)
Escaped(chars) ==
  IF chars = << >> THEN << >>
  ELSE (IF Head(chars) = 34 \/ Head(chars) = 92 THEN << 92, Head(chars) >> ELSE << Head(chars) >>)
         \o Escaped(Tail(chars))

StringText(chars) == << 34 >> \o Escaped(chars) \o << 34 >>

\* JSON.stringify of data = [l, e, f, s, t]: s is text, t is << >> when undefined
\* (the member is left out) and << n >> otherwise
stringify(data) ==
  << 123, 34, 108, 34, 58 >> \o NumberText(data.l)
    \o << 44, 34, 101, 34, 58 >> \o NumberText(data.e)
    \o << 44, 34, 102, 34, 58 >> \o NumberText(data.f)
    \o << 44, 34, 115, 34, 58 >> \o StringText(data.s)
    \o (IF data.t = << >> THEN << >> ELSE << 44, 34, 116, 34, 58 >> \o NumberText(data.t[1]))
    \o << 125 >>

\* the character of a base64 digit 0..63
Base64Char(d) ==
  IF d < 26 THEN 65 + d
  ELSE IF d < 52 THEN 97 + (d - 26)
  ELSE IF d < 62 THEN 48 + (d - 52)
  ELSE IF d = 62 THEN 43 ELSE 47

\* base64 of a sequence of bytes, three bytes to four characters, '=' padded
RECURSIVE Base64(_)
Base64(bytes) ==
  IF Len(bytes) = 0 THEN << >>
  ELSE IF Len(bytes) = 1
  THEN << Base64Char(bytes[1] \div 4), Base64Char((bytes[1] % 4) * 16), 61, 61 >>
  ELSE IF Len(bytes) = 2
  THEN << Base64Char(bytes[1] \div 4),
          Base64Char((bytes[1] % 4) * 16 + (bytes[2] \div 16)),
          Base64Char((bytes[2] % 16) * 4), 61 >>
  ELSE << Base64Char(bytes[1] \div 4),
          Base64Char((bytes[1] % 4) * 16 + (bytes[2] \div 16)),
          Base64Char((bytes[2] % 16) * 4 + (bytes[3] \div 64)),
          Base64Char(bytes[3] % 64) >> \o Base64(SubSeq(bytes, 4, Len(bytes)))

\* btoa: throws when a character is not a byte
btoa(text) ==
  IF \E i \in 1..Len(text) : text[i] > 255
  THEN [threw |-> TRUE, text |-> << >>]
  ELSE [threw |-> FALSE, text |-> Base64(text)]

\* bitwise exclusive or of two numbers below 2^16
RECURSIVE Xor(_, _)
Xor(a, b) ==
  IF a = 0 THEN b
  ELSE IF b = 0 THEN a
  ELSE 2 * Xor(a \div 2, b \div 2) + ((a + b) % 2)

\* a 32-bit value is the pair << high half, low half >> of 16-bit numbers;
\* its two's complement
Negated(u) ==
  IF u[2] = 0 THEN << (65536 - u[1]) % 65536, 0 >> ELSE << 65535 - u[1], 65536 - u[2] >>

\* hash * 0x01000193 as the double product gives it, then >>> 0: hash is the
\* signed 32-bit value left by ^=, of magnitude m = << mh, ml >>; the product
\* m * (2^24 + 403) has limbs p0..p3, loses its lowest bits when it needs more
\* than 53 (rounded to nearest, ties to even), and keeps its low 32 bits
RoundedLow(p0, p1, dropped) ==
  LET unit == 2 ^ dropped
      rest == p0 % unit
      up == \/ 2 * rest > unit
            \/ 2 * rest = unit /\ (p0 \div unit) % 2 = 1
      low == p0 - rest + (IF up THEN unit ELSE 0)
  IN  << (p1 + (low \div 65536)) % 65536, low % 65536 >>

TimesPrime(m) ==
  LET s0 == 403 * m[2]
      s1 == (s0 \div 65536) + 256 * m[2] + 403 * m[1]
      s2 == (s1 \div 65536) + 256 * m[1]
      p3 == s2 \div 65536
  IN  RoundedLow(s0 % 65536, s1 % 65536,
                 IF p3 >= 128 THEN 3 ELSE IF p3 >= 64 THEN 2 ELSE IF p3 >= 32 THEN 1 ELSE 0)

\* one round of the checksum loop: hash ^= code; hash = (hash * 0x01000193) >>> 0
HashStep(hash, code) ==
  LET x == << hash[1], Xor(hash[2], code) >>
  IN  IF x[1] >= 32768 THEN Negated(TimesPrime(Negated(x))) ELSE TimesPrime(x)

RECURSIVE HashLoop(_, _, _)
HashLoop(hash, str, i) ==
  IF i > Len(str) THEN hash
  ELSE CHOOSE last \in { HashLoop(next, str, i + 1) : next \in { HashStep(hash, str[i]) } } : TRUE

\* toString(36) of a 32-bit value
Base36Char(d) == IF d < 10 THEN 48 + d ELSE 97 + (d - 10)

RECURSIVE Base36(_)
Base36(u) ==
  LET low == (u[1] % 36) * 65536 + u[2]
      quotient == << u[1] \div 36, low \div 36 >>
  IN  IF quotient = << 0, 0 >> THEN << Base36Char(low % 36) >>
      ELSE Append(Base36(<< quotient[1] + (quotient[2] \div 65536), quotient[2] % 65536 >>),
                  Base36Char(low % 36))

\* the hash starts at 0x811c9dc5
simpleChecksum(str) == Base36(HashLoop(<< 33052, 40389 >>, str, 1))

\* the data encodeGameState writes for a state st with seed text s and timestamp t
SaveData(st, s, t) ==
  [l |-> st.player.stats.level, e |-> st.player.stats.experience,
   f |-> st.currentFloor, s |-> s, t |-> t]

\* encodeGameState: the code, or a throw out of btoa
encodeJSON(encoded) ==
  IF encoded.threw THEN [threw |-> TRUE, code |-> << >>]
  ELSE [threw |-> FALSE, code |-> encoded.text \o << 45 >> \o simpleChecksum(encoded.text)]

encodeGameState(st, s, t) == encodeJSON(btoa(stringify(SaveData(st, s, t))))

----------------------------------------------------------------------------
(* decodeSaveCode: split at '-', compare the checksum, undo the base64,    *)
(* parse the JSON, read l, e, f, s, t.                                     *)

\* code.split('-'): the pieces between the '-' characters
RECURSIVE split(_, _, _)
split(code, i, parts) ==
  IF i > Len(code) THEN parts
  ELSE IF code[i] = 45 THEN split(code, i + 1, Append(parts, << >>))
  ELSE split(code, i + 1, [parts EXCEPT ![Len(parts)] = Append(@, code[i])])

\* the base64 digit of a character, -1 when it is none
Base64Digit(c) ==
  IF c >= 65 /\ c <= 90 THEN c - 65
  ELSE IF c >= 97 /\ c <= 122 THEN c - 97 + 26
  ELSE IF c >= 48 /\ c <= 57 THEN c - 48 + 52
  ELSE IF c = 43 THEN 62
  ELSE IF c = 47 THEN 63
  ELSE -1

\* the bytes of a sequence of base64 digits; the bits of an incomplete group are dropped
RECURSIVE Base64Bytes(_)
Base64Bytes(d) ==
  IF Len(d) < 2 THEN << >>
  ELSE IF Len(d) = 2 THEN << d[1] * 4 + (d[2] \div 16) >>
  ELSE IF Len(d) = 3 THEN << d[1] * 4 + (d[2] \div 16), (d[2] % 16) * 16 + (d[3] \div 4) >>
  ELSE << d[1] * 4 + (d[2] \div 16), (d[2] % 16) * 16 + (d[3] \div 4), (d[3] % 4) * 64 + d[4] >>
         \o Base64Bytes(SubSeq(d, 5, Len(d)))

\* atob: one or two '=' at the end of a text of a multiple of four characters
\* are dropped; it throws on a length of 4n + 1 and on any character that is
\* no base64 digit
Unpadded(text) ==
  IF Len(text) % 4 = 0 /\ Len(text) > 0 /\ text[Len(text)] = 61
  THEN IF text[Len(text) - 1] = 61 THEN SubSeq(text, 1, Len(text) - 2)
       ELSE SubSeq(text, 1, Len(text) - 1)
  ELSE text

atobDigits(text) ==
  IF Len(text) % 4 = 1 \/ \E i \in 1..Len(text) : Base64Digit(text[i]) = -1
  THEN [threw |-> TRUE, text |-> << >>]
  ELSE [threw |-> FALSE, text |-> Base64Bytes([i \in 1..Len(text) |-> Base64Digit(text[i])])]

atob(text) == atobDigits(Unpadded(text))

\* JSON.parse of an object whose members are numbers and strings, written
\* without white space; a parse result is [ok, next, ...], next the index
\* after the text read
ParseError == [ok |-> FALSE, next |-> 0, kind |-> "", num |-> 0, chars |-> << >>]

IsDigit(c) == c >= 48 /\ c <= 57

\* the value of a hexadecimal digit, -1 when the character is none
HexDigit(c) ==
  IF IsDigit(c) THEN c - 48
  ELSE IF c >= 97 /\ c <= 102 THEN c - 97 + 10
  ELSE IF c >= 65 /\ c <= 70 THEN c - 65 + 10
  ELSE -1

\* a string, from the character after its opening quote; the escapes read
\* are \" and \\ and \u with four hexadecimal digits
RECURSIVE parseString(_, _, _)
parseString(txt, i, chars) ==
  IF i > Len(txt) THEN ParseError
  ELSE IF txt[i] = 34
  THEN [ok |-> TRUE, next |-> i + 1, kind |-> "string", num |-> 0, chars |-> chars]
  ELSE IF txt[i] = 92
  THEN IF i + 1 <= Len(txt) /\ (txt[i + 1] = 34 \/ txt[i + 1] = 92)
       THEN parseString(txt, i + 2, Append(chars, txt[i + 1]))
       ELSE IF i + 5 <= Len(txt) /\ txt[i + 1] = 117
                 /\ \A k \in 2..5 : HexDigit(txt[i + k]) # -1
       THEN parseString(txt, i + 6,
              Append(chars, 4096 * HexDigit(txt[i + 2]) + 256 * HexDigit(txt[i + 3])
                              + 16 * HexDigit(txt[i + 4]) + HexDigit(txt[i + 5])))
       ELSE ParseError
  ELSE IF txt[i] < 32 THEN ParseError
  ELSE parseString(txt, i + 1, Append(chars, txt[i]))

\* the digits of a number from index i on, n the value read so far
RECURSIVE parseDigits(_, _, _, _)
parseDigits(txt, i, n, sign) ==
  IF i <= Len(txt) /\ IsDigit(txt[i])
  THEN parseDigits(txt, i + 1, 10 * n + (txt[i] - 48), sign)
  ELSE [ok |-> TRUE, next |-> i, kind |-> "number", num |-> sign * n, chars |-> << >>]

\* a number: an optional '-', then digits without a leading zero
parseNumber(txt, i) ==
  IF i <= Len(txt) /\ txt[i] = 45
  THEN IF i + 1 <= Len(txt) /\ IsDigit(txt[i + 1])
            /\ ~(txt[i + 1] = 48 /\ i + 2 <= Len(txt) /\ IsDigit(txt[i + 2]))
       THEN parseDigits(txt, i + 1, 0, -1)
       ELSE ParseError
  ELSE IF i <= Len(txt) /\ IsDigit(txt[i])
            /\ ~(txt[i] = 48 /\ i + 1 <= Len(txt) /\ IsDigit(txt[i + 1]))
  THEN parseDigits(txt, i, 0, 1)
  ELSE ParseError

parseValue(txt, i) ==
  IF i > Len(txt) THEN ParseError
  ELSE IF txt[i] = 34 THEN parseString(txt, i + 1, << >>)
  ELSE parseNumber(txt, i)

\* the members of an object from index i on, the opening brace or a comma
\* just read; data maps the keys read so far to their values
RECURSIVE parseMembers(_, _, _)
parseAfterValue(txt, key, value, data) ==
  IF ~value.ok \/ value.next > Len(txt) THEN [ok |-> FALSE, data |-> data]
  ELSE IF txt[value.next] = 125
  THEN [ok |-> value.next = Len(txt), data |-> Append(data, [key |-> key, value |-> value])]
  ELSE IF txt[value.next] = 44
  THEN parseMembers(txt, value.next + 1, Append(data, [key |-> key, value |-> value]))
  ELSE [ok |-> FALSE, data |-> data]

parseAfterKey(txt, key, data) ==
  IF ~key.ok \/ key.next > Len(txt) \/ txt[key.next] # 58 THEN [ok |-> FALSE, data |-> data]
  ELSE parseAfterValue(txt, key.chars, parseValue(txt, key.next + 1), data)

parseMembers(txt, i, data) ==
  IF i > Len(txt) \/ txt[i] # 34 THEN [ok |-> FALSE, data |-> data]
  ELSE parseAfterKey(txt, parseString(txt, i + 1, << >>), data)

parse(txt) ==
  IF Len(txt) < 2 \/ txt[1] # 123 THEN [ok |-> FALSE, data |-> << >>]
  ELSE IF txt = << 123, 125 >> THEN [ok |-> TRUE, data |-> << >>]
  ELSE parseMembers(txt, 2, << >>)

\* data.key: the last member of that key; Undefined when there is none
Undefined == [ok |-> TRUE, next |-> 0, kind |-> "undefined", num |-> 0, chars |-> << >>]

Member(data, key) ==
  IF \E i \in 1..Len(data) : data[i].key = << key >>
  THEN data[CHOOSE i \in 1..Len(data) :
              data[i].key = << key >> /\ \A j \in (i + 1)..Len(data) : data[j].key # << key >>].value
  ELSE Undefined

\* what decodeSaveCode returns: null, or the partial game state built from the
\* members l, e, f, s, t of the parsed data. The state is that of DecodedState
\* when l, e, f are numbers and s is a string; t is << >> when undefined
Null == [null |-> TRUE, data |-> << >>]

decodeData(parsed) ==
  IF ~parsed.ok THEN Null
  ELSE [null |-> FALSE,
        data |-> [l |-> Member(parsed.data, 108), e |-> Member(parsed.data, 101),
                  f |-> Member(parsed.data, 102), s |-> Member(parsed.data, 115),
                  t |-> Member(parsed.data, 116)]]

decodeJSON(decoded) == IF decoded.threw THEN Null ELSE decodeData(parse(decoded.text))

\* variant: the checksum part is not compared
decodeParts_Unchecked(parts) ==
  IF Len(parts) # 2 THEN Null
  ELSE decodeJSON(atob(parts[1]))

decodeParts(parts) ==
  IF Len(parts) # 2 THEN Null
  ELSE IF simpleChecksum(parts[1]) # parts[2] THEN Null
  ELSE decodeJSON(atob(parts[1]))

decodeSaveCode(code) == decodeParts(split(code, 1, << << >> >>))

validateSaveCode(code) == ~decodeSaveCode(code).null

----------------------------------------------------------------------------
(* The page's save buttons: Get Save Code shows the code of the running   *)
(* game, Load Save Code replaces the engine when the code entered decodes. *)
(* The state carries its timestamp here: << >> when undefined.             *)

\* the seeds of the games saved and loaded, and the text of each
SaveSeeds == { "b", "a-b", "q\"\\", "U+4E2D" }

SeedText(seed) ==
  IF seed = "b" THEN << 98 >>
  ELSE IF seed = "a-b" THEN << 97, 45, 98 >>
  ELSE IF seed = "q\"\\" THEN << 113, 34, 92 >>
  ELSE << 20013 >>

SeedNamed(chars) == CHOOSE seed \in SaveSeeds : SeedText(seed) = chars

Stamped(st, t) ==
  [player |-> st.player, currentFloor |-> st.currentFloor, seed |-> st.seed, timestamp |-> t]

\* the partial game state decodeSaveCode returns for the members read
DecodedGame(data) ==
  Stamped(DecodedState([l |-> data.l.num, e |-> data.e.num, f |-> data.f.num,
                        s |-> SeedNamed(data.s.chars)]),
          IF data.t.kind = "undefined" THEN << >> ELSE << data.t.num >>)

\* codes written outside the game, with the checksum of their encoded part:
\* a level-3 save of each seed without a timestamp, the seed of U+4E2D as
\* the escape \u4e2d
CraftedPayloads ==
  { stringify([l |-> 3, e |-> 290, f |-> 1, s |-> SeedText(seed), t |-> << >>]) :
      seed \in { "a-b", "q\"\\" } }
  \cup { << 123, 34, 108, 34, 58, 50, 44, 34, 101, 34, 58, 49, 49, 48, 44, 34, 102, 34, 58, 50, 44, 34, 115, 34, 58, 34, 92, 117, 52, 101, 50, 100, 34, 125 >> }

CraftedCodes == { encodeJSON(btoa(text)).code : text \in CraftedPayloads }

\* a shown code as it may be entered: as shown, with the last character of the
\* checksum or the first character of the encoded part changed, with a third
\* part, with a trailing '-', or without the checksum part
Altered(code) ==
  { code,
    [code EXCEPT ![Len(code)] = IF @ = 48 THEN 49 ELSE 48],
    [code EXCEPT ![1] = IF @ = 101 THEN 102 ELSE 101],
    code \o << 45, 48 >>,
    Append(code, 45),
    split(code, 1, << << >> >>)[1] }

EnteredCodes ==
  CraftedCodes
  \cup (IF input = "save" /\ ~result.threw THEN Altered(result.code) ELSE {})

InitSave ==
  /\ Constructed(Stamped(createNewGameState("b"), << 17 >>))
  /\ result = NoResult
  /\ trace = << >>
  /\ input = ""
  /\ inputs = 0

\* Get Save Code: the code of the engine's state is shown, unless btoa throws
ShowSaveCode ==
  /\ inputs < MaxInputs
  /\ result' = encodeGameState(state, SeedText(state.seed), state.timestamp)
  /\ trace' = << >>
  /\ input' = "save"
  /\ inputs' = inputs + 1
  /\ UNCHANGED <<state, dungeon>>

EngineReplaced(w) ==
  /\ state' = w.state
  /\ dungeon' = w.dungeon

\* Load Save Code with the code entered: a code that decodes to null is
\* reported and nothing else happens, any other replaces the engine
LoadDecoded(code, decoded) ==
  /\ IF decoded.null
     THEN /\ result' = [code |-> code, message |-> "Invalid save code!"]
          /\ UNCHANGED <<state, dungeon>>
     ELSE /\ result' = [code |-> code, message |-> "Game loaded from save code!"]
          /\ EngineReplaced(generateDungeon([state |-> DecodedGame(decoded.data),
                                             dungeon |-> [width |-> 0, height |-> 0,
                                                          tiles |-> << >>, entities |-> << >>],
                                             trace |-> << >>]))
  /\ trace' = << >>
  /\ input' = "load"
  /\ inputs' = inputs + 1

LoadEnteredCode ==
  /\ inputs < MaxInputs
  /\ \E code \in EnteredCodes : LoadDecoded(code, decodeSaveCode(code))

NextSave ==
  \/ \E key \in Keys : HandleMoveKey(key)
  \/ ShowSaveCode
  \/ LoadEnteredCode

SpecSave == InitSave /\ [][NextSave]_vars

----------------------------------------------------------------------------
(* Restored games: play from the game every accepted save code of a small *)
(* level, floor and experience decodes to, 0 included.                     *)

RestoreSaves ==
  { [l |-> l, e |-> e, f |-> f, s |-> "b"] :
      l \in 0..MaxSaveLevel, e \in { 0, 90 }, f \in 0..MaxSaveFloor }

InitRestore ==
  /\ \E data \in RestoreSaves : Constructed(DecodedState(data))
  /\ result = NoResult
  /\ trace = << >>
  /\ input = ""
  /\ inputs = 0

NextRestore == \E key \in Keys : HandleMoveKey(key)

SpecRestore == InitRestore /\ [][NextRestore]_vars

----------------------------------------------------------------------------
(* Pathfinding: the goal-directed search and the flood fill, as functions  *)
(* of a start, a dungeon and an optional walkability callback.             *)

manhattanDistance(a, b) ==
  (IF a.x >= b.x THEN a.x - b.x ELSE b.x - a.x) + (IF a.y >= b.y THEN a.y - b.y ELSE b.y - a.y)

\* the key of a position in the search's maps and sets
posKey(pos) == <<pos.x, pos.y>>

\* no callback passed; a callback cb = [given, allowed] answers from a set of keys
NoCallback == [given |-> FALSE, allowed |-> {}]

\* variant: the goal is subject to the callback and the enemy test as well
findPathWalkable_GoalChecked(dg, goal, cb, x, y) ==
  IF x < 0 \/ x >= dg.width \/ y < 0 \/ y >= dg.height THEN FALSE
  ELSE IF dg.tiles[y][x] = WALL THEN FALSE
  ELSE IF cb.given THEN <<x, y>> \in cb.allowed
  ELSE getEntityAt(dg, Pos(x, y), "enemy") = 0

\* the isWalkable closure of findPath
findPathWalkable(dg, goal, cb, x, y) ==
  IF x < 0 \/ x >= dg.width \/ y < 0 \/ y >= dg.height THEN FALSE
  ELSE IF dg.tiles[y][x] = WALL THEN FALSE
  ELSE IF x = goal.x /\ y = goal.y THEN TRUE
  ELSE IF cb.given THEN <<x, y>> \in cb.allowed
  ELSE getEntityAt(dg, Pos(x, y), "enemy") = 0

\* a search node; parent is the key of the node it was reached from
PathNode(pos, g, h, parent, root) ==
  [pos |-> pos, g |-> g, h |-> h, f |-> g + h, parent |-> parent, root |-> root]

\* variant: the node inserted last is taken, whatever its f
lowestF_Newest(open) == Len(open)

\* the open set keeps insertion order: the first node of lowest f is taken
lowestF(open) ==
  CHOOSE i \in 1..Len(open) :
    /\ \A j \in 1..Len(open) : open[i].f <= open[j].f
    /\ \A j \in 1..(i - 1) : open[j].f > open[i].f

\* the path to a node: the positions of the node and its ancestors, the root left out
RECURSIVE pathTo(_, _)
pathTo(node, closed) ==
  IF node.root THEN << >>
  ELSE Append(pathTo(closed[CHOOSE i \in 1..Len(closed) : posKey(closed[i].pos) = node.parent],
                     closed),
              node.pos)

\* openSet.set for a neighbour: a new key is appended, a known key keeps its
\* place and takes the node only when the new cost is lower
openSetWith(open, node) ==
  IF \E i \in 1..Len(open) : open[i].pos = node.pos
  THEN LET i == CHOOSE j \in 1..Len(open) : open[j].pos = node.pos
       IN  IF node.g < open[i].g THEN [open EXCEPT ![i] = node] ELSE open
  ELSE Append(open, node)

\* the neighbours of current from direction d on, added to the open set
RECURSIVE checkNeighbors(_, _, _, _, _, _, _)
checkNeighbors(dg, goal, cb, current, d, open, closed) ==
  IF d > Len(Directions) THEN open
  ELSE LET neighborPos == Pos(current.pos.x + Directions[d].x, current.pos.y + Directions[d].y)
       IN  IF ~findPathWalkable(dg, goal, cb, neighborPos.x, neighborPos.y)
           THEN checkNeighbors(dg, goal, cb, current, d + 1, open, closed)
           ELSE IF \E i \in 1..Len(closed) : closed[i].pos = neighborPos
           THEN checkNeighbors(dg, goal, cb, current, d + 1, open, closed)
           ELSE checkNeighbors(dg, goal, cb, current, d + 1,
                  openSetWith(open, PathNode(neighborPos, current.g + 1,
                                             manhattanDistance(neighborPos, goal),
                                             posKey(current.pos), FALSE)),
                  closed)

\* the search loop: open and closed are sequences of nodes, c the node taken
RECURSIVE findPathLoop(_, _, _, _, _)
findPathFrom(dg, goal, cb, open, closed, c) ==
  IF open[c].pos = goal THEN pathTo(open[c], closed)
  ELSE findPathLoop(dg, goal, cb,
         checkNeighbors(dg, goal, cb, open[c], 1,
                        SubSeq(open, 1, c - 1) \o SubSeq(open, c + 1, Len(open)),
                        Append(closed, open[c])),
         Append(closed, open[c]))

findPathLoop(dg, goal, cb, open, closed) ==
  IF Len(open) = 0 THEN << >>
  ELSE findPathFrom(dg, goal, cb, open, closed, lowestF(open))

findPath(start, goal, dg, cb) ==
  IF start.x = goal.x /\ start.y = goal.y THEN << >>
  ELSE IF goal.x < 0 \/ goal.x >= dg.width \/ goal.y < 0 \/ goal.y >= dg.height THEN << >>
  ELSE IF dg.tiles[goal.y][goal.x] = WALL THEN << >>
  ELSE findPathLoop(dg, goal, cb,
         << PathNode(start, 0, manhattanDistance(start, goal), posKey(start), TRUE) >>,
         << >>)

\* no maxDistance passed; otherwise md = [given, value]
NoMaxDistance == [given |-> FALSE, value |-> 0]

\* the isWalkable closure of findReachableTiles
reachableWalkable(dg, cb, x, y) ==
  IF x < 0 \/ x >= dg.width \/ y < 0 \/ y >= dg.height THEN FALSE
  ELSE IF dg.tiles[y][x] = WALL THEN FALSE
  ELSE IF cb.given THEN <<x, y>> \in cb.allowed
  ELSE getEntityAt(dg, Pos(x, y), "enemy") = 0

\* the neighbours of current from direction d on; b = [queue, visited]
RECURSIVE reachNeighbors(_, _, _, _, _)
reachNeighbors(dg, cb, current, d, b) ==
  IF d > Len(Directions) THEN b
  ELSE LET neighborPos == Pos(current.pos.x + Directions[d].x, current.pos.y + Directions[d].y)
       IN  IF posKey(neighborPos) \in b.visited
           THEN reachNeighbors(dg, cb, current, d + 1, b)
           ELSE IF ~reachableWalkable(dg, cb, neighborPos.x, neighborPos.y)
           THEN reachNeighbors(dg, cb, current, d + 1, b)
           ELSE reachNeighbors(dg, cb, current, d + 1,
                  [queue |-> Append(b.queue, [pos |-> neighborPos, dist |-> current.dist + 1]),
                   visited |-> b.visited \cup { posKey(neighborPos) }])

\* variant: a node past the maximum distance is still recorded, only not expanded
RECURSIVE reachLoop_RecordFirst(_, _, _, _, _, _)
reachLoop_RecordFirst(start, dg, md, cb, b, reachable) ==
  IF Len(b.queue) = 0 THEN reachable
  ELSE IF md.given /\ Head(b.queue).dist > md.value
  THEN reachLoop_RecordFirst(start, dg, md, cb, [b EXCEPT !.queue = Tail(@)],
                 IF Head(b.queue).pos # start
                 THEN reachable \cup { posKey(Head(b.queue).pos) } ELSE reachable)
  ELSE reachLoop_RecordFirst(start, dg, md, cb,
         reachNeighbors(dg, cb, Head(b.queue), 1, [b EXCEPT !.queue = Tail(@)]),
         IF Head(b.queue).pos.x # start.x \/ Head(b.queue).pos.y # start.y
         THEN reachable \cup { posKey(Head(b.queue).pos) }
         ELSE reachable)

\* the flood-fill loop
RECURSIVE reachLoop(_, _, _, _, _, _)
reachLoop(start, dg, md, cb, b, reachable) ==
  IF Len(b.queue) = 0 THEN reachable
  ELSE IF md.given /\ Head(b.queue).dist > md.value
  THEN reachLoop(start, dg, md, cb, [b EXCEPT !.queue = Tail(@)], reachable)
  ELSE reachLoop(start, dg, md, cb,
         reachNeighbors(dg, cb, Head(b.queue), 1, [b EXCEPT !.queue = Tail(@)]),
         IF Head(b.queue).pos.x # start.x \/ Head(b.queue).pos.y # start.y
         THEN reachable \cup { posKey(Head(b.queue).pos) }
         ELSE reachable)

findReachableTiles(start, dg, md, cb) ==
  reachLoop(start, dg, md, cb,
            [queue |-> << [pos |-> start, dist |-> 0] >>, visited |-> { posKey(start) }],
            {})

\* the grids searched: every wall pattern of a PathWidth x PathHeight grid with a
\* code up to MaxMapCode (bit x + y * PathWidth set: Wall at (x, y)), and a
\* straight corridor of every length up to MaxCorridor in a walled grid
PathMap(m) ==
  [width |-> PathWidth, height |-> PathHeight,
   tiles |-> [y \in 0..(PathHeight - 1) |-> [x \in 0..(PathWidth - 1) |->
                IF (m \div (2 ^ (x + y * PathWidth))) % 2 = 1 THEN WALL ELSE FLOOR]],
   entities |-> << >>]

CorridorMap(n, across) ==
  [width |-> IF across THEN n + 2 ELSE 3, height |-> IF across THEN 3 ELSE n + 2,
   tiles |-> [y \in 0..(IF across THEN 2 ELSE n + 1) |->
               [x \in 0..(IF across THEN n + 1 ELSE 2) |->
                  IF across /\ y = 1 /\ x >= 1 /\ x <= n THEN FLOOR
                  ELSE IF ~across /\ x = 1 /\ y >= 1 /\ y <= n THEN FLOOR
                  ELSE WALL]],
   entities |-> << >>]

PathMaps ==
  { PathMap(m) : m \in 0..MaxMapCode }
  \cup { CorridorMap(n, across) : n \in 1..MaxCorridor, across \in BOOLEAN }

\* the keys of a grid, its non-Wall keys, and the keys one column or row outside
MapKeys(dg) == (0..(dg.width - 1)) \X (0..(dg.height - 1))

FloorKeys(dg) == { q \in MapKeys(dg) : dg.tiles[q[2]][q[1]] # WALL }

OutsideKeys(dg) == { <<-1, 0>>, <<dg.width, 0>>, <<0, -1>>, <<0, dg.height>> }

\* the tiles an enemy is put on: a corner, an edge and an inner tile, where not Wall
EnemyKeys(dg) == FloorKeys(dg) \cap { <<0, 0>>, <<1, 0>>, <<1, 1>> }

\* a grid with one enemy, standing on a non-Wall tile
WithEnemy(dg, q) == [dg EXCEPT !.entities = << EnemyEntity(0, Pos(q[1], q[2]), "goblin", 1) >>]

\* the callbacks passed: none, or one that admits every tile but the last of the grid
Callbacks(dg) ==
  { NoCallback,
    [given |-> TRUE, allowed |-> MapKeys(dg) \ { <<dg.width - 1, dg.height - 1>> }] }

\* the maximum distances passed: none, or 0..MaxDistance
MaxDistances == { NoMaxDistance } \cup { [given |-> TRUE, value |-> v] : v \in 0..MaxDistance }

\* a grid, an enemy or none, and a start on a non-Wall tile free of the enemy
InitPaths ==
  /\ \E dg \in PathMaps :
       /\ dungeon \in { dg } \cup { WithEnemy(dg, q) : q \in EnemyKeys(dg) }
       /\ state \in { [start |-> Pos(q[1], q[2])] : q \in FloorKeys(dg) }
  /\ getEntityAt(dungeon, state.start, "enemy") = 0
  /\ result = NoResult
  /\ trace = << >>
  /\ input = ""
  /\ inputs = 0

\* one call of findPath; trace keeps the arguments
FindPath(goal, cb) ==
  /\ inputs = 0
  /\ result' = findPath(state.start, goal, dungeon, cb)
  /\ trace' = << goal, cb >>
  /\ input' = "findPath"
  /\ inputs' = 1
  /\ UNCHANGED <<state, dungeon>>

\* one call of findReachableTiles; trace keeps the arguments
FindReachableTiles(md, cb) ==
  /\ inputs = 0
  /\ result' = findReachableTiles(state.start, dungeon, md, cb)
  /\ trace' = << md, cb >>
  /\ input' = "findReachableTiles"
  /\ inputs' = 1
  /\ UNCHANGED <<state, dungeon>>

NextPaths ==
  \/ \E q \in MapKeys(dungeon) \cup OutsideKeys(dungeon), cb \in Callbacks(dungeon) :
       FindPath(Pos(q[1], q[2]), cb)
  \/ \E md \in MaxDistances, cb \in Callbacks(dungeon) : FindReachableTiles(md, cb)

SpecPaths == InitPaths /\ [][NextPaths]_vars

----------------------------------------------------------------------------
(* The two open-ended loops, one iteration per step: the search loop of    *)
(* findNextStepTowards and the item loop of generateEntities, the latter   *)
(* with every outcome its draws can have.                                  *)

NoSearch == [queue |-> << >>, visited |-> {}, prev |-> << >>]

NoItems == [entities |-> << >>, k |-> 0, itemsPlaced |-> 0, tries |-> 0]

Running == [done |-> FALSE]

Returned == [done |-> TRUE]

\* the search of an enemy at start for the player at target has set up its queue
SearchCall(dg, start, target) ==
  /\ dungeon = dg
  /\ state = [loop |-> "search", start |-> start, target |-> target,
              b |-> [queue |-> << start >>, visited |-> {start}, prev |-> << >>],
              rooms |-> << >>, itemCount |-> 0, g |-> NoItems]

\* the searches of the enemies of a generated floor for the player's start tile
FloorSearches(sub) ==
  LET dg == generate(sub, sub[2])
  IN  \E i \in 1..Len(dg.entities) :
        /\ dg.entities[i].type = "enemy"
        /\ dg.entities[i].position # FirstFloorTile(dg, Pos(0, 0))
        /\ SearchCall(dg, dg.entities[i].position, FirstFloorTile(dg, Pos(0, 0)))

\* searches on a small grid, from a free corner, edge or inner tile for every
\* other non-Wall tile
GridSearches(dg) ==
  \E q \in EnemyKeys(dg), t \in FloorKeys(dg) :
    /\ q # t
    /\ getEntityAt(dg, Pos(q[1], q[2]), "enemy") = 0
    /\ SearchCall(dg, Pos(q[1], q[2]), Pos(t[1], t[2]))

\* generateEntities has placed the stairs and the enemies and enters the item loop
ItemLoopEntered(sub) ==
  LET rooms == generateRooms(sub)
      placed == placeEnemies(sub, rooms, sub[2], 0,
                  [entities |-> << StairsEntity(getRoomCenter(rooms[Len(rooms)])) >>,
                   k |-> 4 * attempts + 1])
  IN  /\ dungeon = [generate(sub, sub[2]) EXCEPT !.entities = placed.entities]
      /\ state = [loop |-> "items", start |-> Pos(0, 0), target |-> Pos(0, 0),
                  b |-> NoSearch, rooms |-> rooms,
                  itemCount |-> itemCount(rooms, sub[2]),
                  g |-> [entities |-> placed.entities, k |-> placed.k,
                         itemsPlaced |-> 0, tries |-> 0]]

InitLoops ==
  /\ \/ \E seed \in Seeds, floor \in 1..MaxFloor : FloorSearches(<<seed, floor>>)
     \/ \E dg \in PathMaps :
          \E with \in { dg } \cup { WithEnemy(dg, q) : q \in EnemyKeys(dg) } :
            GridSearches(with)
     \/ \E seed \in Seeds \cup { CrowdSeed } : ItemLoopEntered(<<seed, 1>>)
  /\ result = Running
  /\ trace = << >>
  /\ input = ""
  /\ inputs = 0

\* one pass of the search loop: the head of the queue is taken; the loop is left
\* when the queue is empty or the head is the target
SearchStep ==
  /\ state.loop = "search"
  /\ ~result.done
  /\ IF Len(state.b.queue) = 0
     THEN /\ result' = Returned
          /\ UNCHANGED <<state, trace>>
     ELSE LET current == Head(state.b.queue)
          IN  /\ trace' = Append(trace, current)
              /\ IF current = state.target
                 THEN /\ result' = Returned
                      /\ state' = [state EXCEPT !.b.queue = Tail(@)]
                 ELSE /\ result' = Running
                      /\ state' = [state EXCEPT !.b =
                                     bfsNeighbours(dungeon, state.target, current, 1,
                                                   [@ EXCEPT !.queue = Tail(@)])]
  /\ input' = "search"
  /\ inputs' = inputs + 1
  /\ UNCHANGED dungeon

\* variant: the attempts are not counted against a limit
itemLoopRuns_Unlimited(g, count, rooms) ==
  g.itemsPlaced < count /\ Len(rooms) > 1

\* the condition of the item loop
itemLoopRuns(g, count, rooms) ==
  g.itemsPlaced < count /\ g.tries < count * 10 /\ Len(rooms) > 1

\* one pass of the item loop with the given raw draws (the pickup is drawn
\* only when the tile is free)
placeItem(rooms, g, rawRoom, rawX, rawY, rawPickup) ==
  LET roomIndex == nextInt(1, Len(rooms) - 1, rawRoom)
      room == rooms[roomIndex + 1]
      position == getRandomPositionInRoom(room, rawX, rawY)
      occupied == \E j \in 1..Len(g.entities) : g.entities[j].position = position
  IN  IF occupied THEN [g EXCEPT !.k = @ + 3, !.tries = @ + 1]
      ELSE [entities |-> Append(g.entities,
                           ItemEntity(g.itemsPlaced, position, choose(PICKUPS, rawPickup))),
            k |-> g.k + 4,
            itemsPlaced |-> g.itemsPlaced + 1,
            tries |-> g.tries + 1]

\* the raw draws of one pass: one for each room, column, row and pickup
\* the pass can come out with
ItemDraws(rooms) ==
  UNION { { r } \X (0..(rooms[r + 2].width - 3)) \X (0..(rooms[r + 2].height - 3))
                \X (0..(Len(PICKUPS) - 1)) :
          r \in 0..(Len(rooms) - 2) }

\* one pass of the item loop, or its end
PlaceItemStep ==
  /\ state.loop = "items"
  /\ ~result.done
  /\ IF ~itemLoopRuns(state.g, state.itemCount, state.rooms)
     THEN /\ result' = Returned
          /\ UNCHANGED <<state, dungeon, trace>>
     ELSE \E d \in ItemDraws(state.rooms) :
            LET g == placeItem(state.rooms, state.g, d[1], d[2], d[3], d[4])
            IN  /\ state' = [state EXCEPT !.g = g]
                /\ dungeon' = [dungeon EXCEPT !.entities = g.entities]
                /\ result' = Running
                /\ UNCHANGED trace
  /\ input' = "items"
  /\ inputs' = inputs + 1

NextLoops == SearchStep \/ PlaceItemStep

\* a loop that can take a pass takes it
SpecLoops == InitLoops /\ [][NextLoops]_vars /\ WF_vars(NextLoops)

----------------------------------------------------------------------------
(* Properties *)

\* the step is a movePlayer call (a direction key while the player is alive)
IsMoveCall == input' \in Keys \ {" "} /\ state.player.stats.health > 0

\* the tile the call is directed at
TargetTile == Pos(state.player.position.x + KeyDx(input'),
                  state.player.position.y + KeyDy(input'))

TileInBounds(p) == p.x >= 0 /\ p.x < dungeon.width /\ p.y >= 0 /\ p.y < dungeon.height

TileIsFloor(p) == TileInBounds(p) /\ dungeon.tiles[p.y][p.x] # WALL

\* indices of the entities of a type standing on a tile before the call
EntitiesOn(p, type) ==
  { i \in 1..Len(dungeon.entities) :
      dungeon.entities[i].type = type /\ dungeon.entities[i].position = p }

\* the enemy the call attacks: the first one in list order on the target tile
AttackedEnemy ==
  dungeon.entities[CHOOSE i \in EntitiesOn(TargetTile, "enemy") :
                     \A j \in EntitiesOn(TargetTile, "enemy") : i <= j]

IsAttackCall == IsMoveCall /\ TileIsFloor(TargetTile) /\ EntitiesOn(TargetTile, "enemy") # {}

\* the player changes tile on the same floor: a plain move or an item pickup
IsStepCall ==
  /\ IsMoveCall /\ TileIsFloor(TargetTile)
  /\ EntitiesOn(TargetTile, "enemy") = {}
  /\ EntitiesOn(TargetTile, "stairs") = {}

AtLeastOne(n) == IF n >= 1 THEN n ELSE 1

RECURSIVE EffectProduct(_, _)
EffectProduct(effects, i) ==
  IF i > Len(effects) THEN 1
  ELSE (IF effects[i].remainingDuration > 0 THEN effects[i].value ELSE 1)
       * EffectProduct(effects, i + 1)

EventsOf(tr, ev) == { i \in 1..Len(tr) : tr[i].ev = ev }

RECURSIVE EnemyTurnDamage(_, _)
EnemyTurnDamage(tr, i) ==
  IF i > Len(tr) THEN 0
  ELSE (IF tr[i].ev = "enemyAttack" THEN tr[i].n ELSE 0) + EnemyTurnDamage(tr, i + 1)

EntityById(dg, id) ==
  dg.entities[CHOOSE i \in 1..Len(dg.entities) : dg.entities[i].id = id]

HasEntity(dg, id) == \E i \in 1..Len(dg.entities) : dg.entities[i].id = id

\* C1: every damage application (the player's attack, the surviving enemy's
\* retaliation, an enemy's attack in the enemy turn) takes exactly
\* max(1, effectiveAttack - defense) from the target's health, never less than 1.
C1_DamageFormula ==
  [][ /\ IsAttackCall =>
           LET e == AttackedEnemy
               effective == state.player.stats.attack
                              * EffectProduct(state.player.activeEffects, 1)
               dealt == AtLeastOne(effective - e.stats.defense)
               back == AtLeastOne(e.stats.attack - state.player.stats.defense)
           IN  /\ result'.combat.present
               /\ result'.combat.damage = dealt
               /\ IF HasEntity(dungeon', e.id)
                  THEN /\ EntityById(dungeon', e.id).stats.health = e.stats.health - dealt
                       /\ result'.combat.enemyDamage = back
                       /\ state'.player.stats.health = state.player.stats.health - back
                  ELSE e.stats.health - dealt <= 0
      /\ IsStepCall =>
           /\ \A k \in EventsOf(trace', "enemyAttack") :
                /\ HasEntity(dungeon, trace'[k].id)
                /\ trace'[k].n =
                     AtLeastOne(EntityById(dungeon, trace'[k].id).stats.attack
                                  - state.player.stats.defense)
           /\ \E heal \in 0..state.player.stats.maxHealth :
                /\ heal > 0 => result'.message = "pickup"
                /\ state'.player.stats.health =
                     state.player.stats.health + heal - EnemyTurnDamage(trace', 1)
    ]_vars

\* the floor of 1 applies: a player's hit on an enemy whose defense is at least the attack
C1_Witness ==
  /\ result.combat.present /\ ~result.combat.killed
  /\ result.combat.damage = 1 /\ result.combat.enemyDamage >= 1

\* C2: a kill removes exactly the attacked enemy from the entity list, gives the
\* player 10 x enemy.level experience and leaves the player where it stands.
C2_KillEffects ==
  [][ (IsAttackCall /\ result'.combat.killed) =>
        LET e == AttackedEnemy
            stats == state.player.stats
        IN  /\ dungeon'.entities = SelectSeq(dungeon.entities, LAMBDA x : x.id # e.id)
            /\ Len(dungeon'.entities) = Len(dungeon.entities) - 1
            /\ dungeon'.tiles = dungeon.tiles
            /\ state'.player.stats.experience
                 + (IF state'.player.stats.level # stats.level THEN stats.level * 100 ELSE 0)
                 = stats.experience + 10 * e.stats.level
            /\ state'.player.position = state.player.position
    ]_vars

\* a kill on a floor where another enemy is left
C2_Witness ==
  /\ result.combat.killed
  /\ \E i \in 1..Len(dungeon.entities) : dungeon.entities[i].type = "enemy"

\* C3: a surviving enemy retaliates exactly once in the same call, for
\* max(1, enemy.attack - player.defense); a killed enemy does not retaliate.
C3_Retaliation ==
  [][ IsAttackCall =>
        LET e == AttackedEnemy
            back == AtLeastOne(e.stats.attack - state.player.stats.defense)
        IN  IF result'.combat.killed
            THEN /\ result'.combat.enemyDamage = 0
                 /\ state'.player.stats.health >= state.player.stats.health
                 /\ ~HasEntity(dungeon', e.id)
            ELSE /\ result'.combat.enemyDamage = back
                 /\ state'.player.stats.health = state.player.stats.health - back
                 /\ HasEntity(dungeon', e.id)
    ]_vars

\* a surviving enemy has hit back for more than the floor of 1
C3_Witness ==
  /\ result.combat.present /\ ~result.combat.killed
  /\ result.combat.enemyDamage > 1
  /\ state.player.stats.health < state.player.stats.maxHealth

\* the reward of the kill the last step resolved (0 when it resolved none)
ExperienceGained(tr) ==
  IF EventsOf(tr, "kill") = {} THEN 0 ELSE tr[CHOOSE i \in EventsOf(tr, "kill") : TRUE].n

\* C4: when the experience after a gain is L*100 + k with 0 <= k < (L+1)*100 the
\* level-up check levels up exactly once and leaves k; below L*100 it leaves the
\* level alone and the experience is the old one plus the gain.
C4_SingleLevelUp ==
  [][ EventsOf(trace', "kill") # {} =>
        LET L == state.player.stats.level
            after == state.player.stats.experience + ExperienceGained(trace')
        IN  /\ (after >= L * 100 /\ after - L * 100 < (L + 1) * 100) =>
                  /\ state'.player.stats.level = L + 1
                  /\ state'.player.stats.experience = after - L * 100
            /\ after < L * 100 =>
                  /\ state'.player.stats.level = L
                  /\ state'.player.stats.experience = after
    ]_vars

\* a gain that lands exactly on the threshold: one level-up, nothing left over
C4_Witness ==
  /\ EventsOf(trace, "levelUp") # {}
  /\ state.player.stats.level = 2
  /\ state.player.stats.experience = 0

\* C5: after any kill is resolved the player's experience is strictly below
\* level x 100 (a gain that crosses several thresholds levels up several times).
C5_ExperienceBelowThreshold ==
  state.player.stats.experience < state.player.stats.level * 100

\* C6: a level-up adds 1 to level, 20 to maxHealth, 2 to attack, 1 to defense and
\* sets health to the new maxHealth, whatever the health was.
C6_LevelUpEffects ==
  [][ state'.player.stats.level # state.player.stats.level =>
        /\ state'.player.stats.level = state.player.stats.level + 1
        /\ state'.player.stats.maxHealth = state.player.stats.maxHealth + 20
        /\ state'.player.stats.attack = state.player.stats.attack + 2
        /\ state'.player.stats.defense = state.player.stats.defense + 1
        /\ state'.player.stats.health = state.player.stats.maxHealth + 20
    ]_vars

\* a level-up of a player who was hurt before it
C6_Witness ==
  /\ \E i \in EventsOf(trace, "levelUp") :
       trace[i].n < state.player.stats.maxHealth - 20
  /\ state.player.stats.health = state.player.stats.maxHealth

\* C7: a move towards an out-of-bounds or Wall tile fails with a message and
\* changes nothing, and no enemy turn runs.
C7_BlockedMove ==
  [][ (IsMoveCall /\ ~TileIsFloor(TargetTile)) =>
        /\ result'.success = FALSE
        /\ result'.message \in {"Out of bounds", "There is a wall there"}
        /\ state' = state
        /\ dungeon' = dungeon
        /\ trace' = << >>
    ]_vars

\* a refused move on a floor with an enemy in detection range
C7_Witness ==
  /\ result.message = "There is a wall there"
  /\ \E i \in 1..Len(dungeon.entities) :
       /\ dungeon.entities[i].type = "enemy"
       /\ getDistanceSquared(dungeon.entities[i].position, state.player.position) < 64

\* C8: a plain move or an item-pickup move runs the enemy turn exactly once,
\* after the player's position has been updated.
C8_EnemyTurnAfterStep ==
  [][ IsStepCall =>
        /\ state'.player.position = TargetTile
        /\ Cardinality(EventsOf(trace', "enemyTurn")) = 1
        /\ \A k \in EventsOf(trace', "enemyTurn") :
             /\ k = 1
             /\ trace'[k].position = TargetTile
        /\ \A i \in 1..Len(dungeon.entities) :
             (dungeon.entities[i].type = "enemy"
                /\ getDistanceSquared(dungeon.entities[i].position, TargetTile) = 1)
             => \E k \in EventsOf(trace', "enemyAttack") :
                  trace'[k].id = dungeon.entities[i].id
    ]_vars

\* an item-pickup move after which an enemy acted
C8_Witness ==
  /\ result.message = "pickup"
  /\ EventsOf(trace, "enemyTurn") # {}
  /\ EventsOf(trace, "enemyMove") \cup EventsOf(trace, "enemyAttack") # {}

\* C9 as stated: a call that resolves as an attack runs the enemy turn before it returns.
C9_EnemyTurnAfterAttack ==
  [][ IsAttackCall => EventsOf(trace', "enemyTurn") # {} ]_vars

\* C9, amended: a call that resolves as an attack runs no enemy turn; no enemy
\* moves, and the player is hit by the attacked enemy's retaliation at most.
C9_NoEnemyTurnAfterAttack ==
  [][ IsAttackCall =>
        /\ EventsOf(trace', "enemyTurn") = {}
        /\ EventsOf(trace', "enemyMove") = {}
        /\ EventsOf(trace', "enemyAttack") = {}
        /\ \A i \in 1..Len(dungeon'.entities) :
             /\ HasEntity(dungeon, dungeon'.entities[i].id)
             /\ dungeon'.entities[i].position =
                  EntityById(dungeon, dungeon'.entities[i].id).position
        /\ state'.player.stats.health >=
             state.player.stats.health - result'.combat.enemyDamage
    ]_vars

\* an attack while a second enemy stands within detection range of the player
C9_Witness ==
  /\ result.combat.present
  /\ trace = << >>
  /\ \E i, j \in 1..Len(dungeon.entities) :
       /\ i # j
       /\ dungeon.entities[i].type = "enemy" /\ dungeon.entities[j].type = "enemy"
       /\ getDistanceSquared(dungeon.entities[i].position, state.player.position) < 64
       /\ getDistanceSquared(dungeon.entities[j].position, state.player.position) < 64

\* C10: in an enemy turn an enemy at Euclidean distance >= 8 from the player
\* (dx^2 + dy^2 >= 64) keeps its position and deals no damage.
C10_OutOfRangeIdle ==
  [][ \A i \in 1..Len(dungeon.entities) :
        ( /\ dungeon.entities[i].type = "enemy"
          /\ EventsOf(trace', "enemyTurn") # {}
          /\ LET ddx == state'.player.position.x - dungeon.entities[i].position.x
                 ddy == state'.player.position.y - dungeon.entities[i].position.y
             IN  ddx * ddx + ddy * ddy >= 64 )
        => /\ HasEntity(dungeon', dungeon.entities[i].id)
           /\ EntityById(dungeon', dungeon.entities[i].id).position
                = dungeon.entities[i].position
           /\ \A k \in EventsOf(trace', "enemyAttack") :
                trace'[k].id # dungeon.entities[i].id
    ]_vars

\* an enemy turn with an enemy at distance exactly 8, which a path connects to the player
C10_Witness ==
  /\ EventsOf(trace, "enemyTurn") # {}
  /\ \E i \in 1..Len(dungeon.entities) :
       /\ dungeon.entities[i].type = "enemy"
       /\ getDistanceSquared(dungeon.entities[i].position, state.player.position) = 64
       /\ EventsOf(trace, "enemyMove") = {}

\* the tiles an enemy may walk over towards the player at `goal`, given the tiles
\* `taken` by the other enemies: not Wall, and not taken unless it is the goal
WalkableTiles(dg, taken, goal) ==
  { q \in (0..(dg.width - 1)) \X (0..(dg.height - 1)) :
      /\ dg.tiles[q[2]][q[1]] # WALL
      /\ (Pos(q[1], q[2]) \notin taken \/ Pos(q[1], q[2]) = goal) }

Adjacent(q) == { <<q[1] + 1, q[2]>>, <<q[1] - 1, q[2]>>, <<q[1], q[2] + 1>>, <<q[1], q[2] - 1>> }

\* length of a shortest 4-directional path from the frontier to goal over the
\* tiles of free, -1 when there is none
RECURSIVE PathLength(_, _, _, _, _)
PathLength(frontier, seen, goal, free, n) ==
  IF goal \in frontier THEN n
  ELSE IF frontier = {} THEN -1
  ELSE LET next == ((UNION { Adjacent(q) : q \in frontier }) \cap free) \ seen
       IN  PathLength(next, seen \cup next, goal, free, n + 1)

\* shortest-path distance from tile `from` to the player at `goal`
PathDistance(dg, taken, from, goal) ==
  PathLength({ <<from.x, from.y>> }, { <<from.x, from.y>> }, <<goal.x, goal.y>>,
             WalkableTiles(dg, taken, goal), 0)

\* where the enemy `id` stands when event k of the enemy turn happens: the tile it
\* moved to earlier in the turn, else its tile before the turn
PositionAt(tr, k, id) ==
  IF \E j \in 1..(k - 1) : tr[j].ev = "enemyMove" /\ tr[j].id = id
  THEN tr[CHOOSE j \in 1..(k - 1) : tr[j].ev = "enemyMove" /\ tr[j].id = id].position
  ELSE EntityById(dungeon, id).position

\* the tiles of the enemies other than `id` when event k happens
OthersAt(tr, k, id) ==
  { PositionAt(tr, k, dungeon.entities[i].id) :
      i \in { j \in 1..Len(dungeon.entities) :
                dungeon.entities[j].type = "enemy" /\ dungeon.entities[j].id # id } }

\* C11: in one enemy turn every enemy moves by at most one 4-directional step,
\* and a move is the first step of a shortest path to the player over non-Wall
\* tiles free of other enemies: the path distance was defined and drops by 1.
C11_ShortestPathStep ==
  [][ EventsOf(trace', "enemyTurn") # {} =>
        /\ \A i \in 1..Len(dungeon.entities) :
             dungeon.entities[i].type = "enemy" =>
               /\ HasEntity(dungeon', dungeon.entities[i].id)
               /\ LET old == dungeon.entities[i].position
                      new == EntityById(dungeon', dungeon.entities[i].id).position
                  IN  /\ getDistanceSquared(old, new) <= 1
                      /\ old # new =>
                           Cardinality({ k \in EventsOf(trace', "enemyMove") :
                                           trace'[k].id = dungeon.entities[i].id }) = 1
        /\ \A k \in EventsOf(trace', "enemyMove") :
             LET id == trace'[k].id
                 taken == OthersAt(trace', k, id)
                 player == state'.player.position
                 before == PathDistance(dungeon, taken, PositionAt(trace', k, id), player)
                 after == PathDistance(dungeon, taken, trace'[k].position, player)
             IN  /\ EntityById(dungeon', id).position = trace'[k].position
                 /\ before >= 2
                 /\ after = before - 1
    ]_vars

\* an enemy has stepped on a detour round a wall: from its new tile the path to
\* the player is longer than the straight-line (Manhattan) distance
C11_Witness ==
  \E k \in EventsOf(trace, "enemyMove") :
    LET at == trace[k].position
        straight == Max(at.x - state.player.position.x, state.player.position.x - at.x)
                      + Max(at.y - state.player.position.y, state.player.position.y - at.y)
    IN  PathDistance(dungeon, {}, at, state.player.position) > straight

\* what a pickup of the item on the target tile restores: a Health item gives
\* floor(maxHealth x fraction), capped at the missing health
HealOnTarget ==
  IF \E i \in EntitiesOn(TargetTile, "item") : dungeon.entities[i].itemId = "health_potion"
  THEN Min(state.player.stats.maxHealth \div 2,
           state.player.stats.maxHealth - state.player.stats.health)
  ELSE 0

\* C12: an enemy whose step would take it onto the player's tile (it stands
\* orthogonally next to the player when it acts) attacks instead of moving: the
\* player loses max(1, enemy.attack - player.defense), the enemy keeps its
\* position and its health, and no enemy attacks twice in one enemy turn.
C12_EnemyAttackInsteadOfMove ==
  [][ EventsOf(trace', "enemyTurn") # {} =>
        /\ \A k \in EventsOf(trace', "enemyAttack") :
             LET id == trace'[k].id
                 at == PositionAt(trace', k, id)
             IN  /\ getDistanceSquared(at, state'.player.position) = 1
                 /\ trace'[k].n = AtLeastOne(EntityById(dungeon, id).stats.attack
                                               - state.player.stats.defense)
                 /\ EntityById(dungeon', id).position = EntityById(dungeon, id).position
                 /\ EntityById(dungeon', id).stats = EntityById(dungeon, id).stats
                 /\ \A j \in EventsOf(trace', "enemyAttack") : trace'[j].id = id => j = k
                 /\ \A j \in EventsOf(trace', "enemyMove") : trace'[j].id # id
        /\ \A i \in 1..Len(dungeon.entities) :
             ( /\ dungeon.entities[i].type = "enemy"
               /\ getDistanceSquared(dungeon.entities[i].position,
                                     state'.player.position) = 1 )
             => \E k \in EventsOf(trace', "enemyAttack") :
                  trace'[k].id = dungeon.entities[i].id
        /\ state'.player.stats.health =
             state.player.stats.health + HealOnTarget - EnemyTurnDamage(trace', 1)
    ]_vars

\* two enemies have attacked the player in the same enemy turn
C12_Witness ==
  /\ Cardinality(EventsOf(trace, "enemyAttack")) = 2
  /\ state.player.stats.health < state.player.stats.maxHealth

\* the call moves the player onto the stairs: a floor tile with the stairs and no enemy
IsDescendCall ==
  /\ IsMoveCall /\ TileIsFloor(TargetTile)
  /\ EntitiesOn(TargetTile, "enemy") = {}
  /\ EntitiesOn(TargetTile, "stairs") # {}

\* p is a Floor tile of dg and no Floor tile comes before it in row-major order
IsFirstFloorTile(dg, p) ==
  /\ dg.tiles[p.y][p.x] = FLOOR
  /\ \A y \in 0..(dg.height - 1) : \A x \in 0..(dg.width - 1) :
       dg.tiles[y][x] = FLOOR => (y > p.y \/ (y = p.y /\ x >= p.x))

\* C13: moving onto the stairs adds exactly 1 to currentFloor, replaces the dungeon
\* by the one generated from the sub-seed (seed, new floor) and puts the player on
\* the first Floor tile in row-major order; stats, active effects and seed are
\* unchanged; currentFloor changes in no other step.
C13_Descent ==
  [][ /\ IsDescendCall =>
           /\ state'.currentFloor = state.currentFloor + 1
           /\ dungeon' = generate(<<state.seed, state.currentFloor + 1>>,
                                  state.currentFloor + 1)
           /\ IsFirstFloorTile(dungeon', state'.player.position)
           /\ state'.player.stats = state.player.stats
           /\ state'.player.activeEffects = state.player.activeEffects
           /\ state'.seed = state.seed
      /\ state'.currentFloor # state.currentFloor => IsDescendCall
    ]_vars

\* a hurt player has descended to floor 2 and stands on its first floor tile,
\* away from where it stood on floor 1
C13_Witness ==
  /\ result.message = "Descended"
  /\ state.currentFloor = 2
  /\ state.player.stats.health < state.player.stats.maxHealth
  /\ dungeon # generate(<<state.seed, 1>>, 1)

\* the item the call picks up: the first one in list order on the target tile
PickedItem ==
  dungeon.entities[CHOOSE i \in EntitiesOn(TargetTile, "item") :
                     \A j \in EntitiesOn(TargetTile, "item") : i <= j]

\* the call moves the player onto an item: a floor tile with an item, no enemy, no stairs
IsPickupCall == IsStepCall /\ EntitiesOn(TargetTile, "item") # {}

\* C14: picking up a Health item raises the player's health by exactly
\* min(floor(maxHealth / 2), maxHealth - health) (before the enemy turn of the
\* same call takes its damage), removes that item and no other entity, and moves
\* the player onto the item's tile; the health never exceeds maxHealth.
C14_HealthPickup ==
  [][ /\ (IsPickupCall /\ PickedItem.itemId = "health_potion") =>
           LET stats == state.player.stats
               half == (stats.maxHealth - (stats.maxHealth % 2)) \div 2
               missing == stats.maxHealth - stats.health
               heal == IF half < missing THEN half ELSE missing
           IN  /\ state'.player.stats.health = stats.health + heal - EnemyTurnDamage(trace', 1)
               /\ state'.player.stats.health <= stats.maxHealth
               /\ [state'.player.stats EXCEPT !.health = 0] = [stats EXCEPT !.health = 0]
               /\ ~HasEntity(dungeon', PickedItem.id)
               /\ Len(dungeon'.entities) = Len(dungeon.entities) - 1
               /\ \A i \in 1..Len(dungeon.entities) :
                    dungeon.entities[i].id # PickedItem.id
                      => HasEntity(dungeon', dungeon.entities[i].id)
               /\ state'.player.position = PickedItem.position
               /\ state'.player.activeEffects = state.player.activeEffects
      /\ state'.player.stats.health <= state'.player.stats.maxHealth
    ]_vars

\* a Health item has restored half the maximum health of a player who missed
\* more than that: after the pickup, with no hit in the enemy turn, the player
\* is still below the maximum, and no item is left on the floor
C14_Witness ==
  /\ result.message = "pickup"
  /\ state.player.activeEffects = << >>
  /\ EventsOf(trace, "enemyAttack") = {}
  /\ state.player.stats.health < state.player.stats.maxHealth
  /\ 2 * state.player.stats.health >= state.player.stats.maxHealth
  /\ \A i \in 1..Len(dungeon.entities) : dungeon.entities[i].type # "item"

\* the effects of a list that multiply an attack: damage multipliers with
\* remaining duration > 0
Multipliers(effects) ==
  { i \in 1..Len(effects) :
      effects[i].type = "damage_multiplier" /\ effects[i].remainingDuration > 0 }

\* product of the values of the effects of a set of indices
RECURSIVE ProductOver(_, _)
ProductOver(effects, indices) ==
  IF indices = {} THEN 1
  ELSE LET i == CHOOSE j \in indices : TRUE
       IN  effects[i].value * ProductOver(effects, indices \ {i})

\* C15: the player's attack deals max(1, floor(attack x M) - enemy.defense), M the
\* product of the values of the active damage multipliers with remaining duration
\* > 0 and 1 when there is none; the retaliation of a surviving enemy is
\* max(1, enemy.attack - player.defense), not multiplied.
C15_MultipliedDamage ==
  [][ IsAttackCall =>
        LET e == AttackedEnemy
            effects == state.player.activeEffects
            M == ProductOver(effects, Multipliers(effects))
            dealt == Max(1, state.player.stats.attack * M - e.stats.defense)
            back == Max(1, e.stats.attack - state.player.stats.defense)
        IN  /\ Multipliers(effects) = {} => M = 1
            /\ result'.combat.damage = dealt
            /\ result'.combat.killed = (e.stats.health - dealt <= 0)
            /\ ~result'.combat.killed =>
                 /\ EntityById(dungeon', e.id).stats.health = e.stats.health - dealt
                 /\ result'.combat.enemyDamage = back
                 /\ state'.player.stats.health = state.player.stats.health - back
    ]_vars

\* an attack under two stacked multipliers: it dealt more than twice the
\* player's attack, and the enemy survived and hit back
C15_Witness ==
  /\ result.combat.present /\ ~result.combat.killed
  /\ result.combat.damage > 2 * state.player.stats.attack
  /\ result.combat.enemyDamage >= 1

\* an effects list after one more attack: every duration one less, the effects
\* that reach 0 dropped, the others in their order
RECURSIVE AfterOneAttack(_)
AfterOneAttack(effects) ==
  IF effects = << >> THEN << >>
  ELSE LET first == Head(effects)
       IN  (IF first.remainingDuration - 1 >= 1
            THEN << [first EXCEPT !.remainingDuration = @ - 1] >>
            ELSE << >>)
           \o AfterOneAttack(Tail(effects))

\* C16: an attack, killing or not, is multiplied by every effect the player holds
\* and takes 1 from the remaining duration of each, dropping those that reach 0,
\* so an effect of duration d multiplies exactly the next d attacks; a pickup of a
\* multiplier adds an effect good for 1 attack; no other call (plain move, other
\* pickup, refused move, descent) changes the list; no held effect has
\* remaining duration <= 0.
C16_EffectDuration ==
  [][ /\ IsAttackCall =>
           LET effects == state.player.activeEffects
               e == AttackedEnemy
           IN  /\ state'.player.activeEffects = AfterOneAttack(effects)
               /\ result'.combat.damage =
                    Max(1, state.player.stats.attack
                             * ProductOver(effects, 1..Len(effects)) - e.stats.defense)
      /\ (IsMoveCall /\ ~IsAttackCall) =>
           IF IsPickupCall /\ PickedItem.itemId = "damage_power_up"
           THEN /\ Len(state'.player.activeEffects) = Len(state.player.activeEffects) + 1
                /\ SubSeq(state'.player.activeEffects, 1, Len(state.player.activeEffects))
                     = state.player.activeEffects
                /\ LET new == state'.player.activeEffects[Len(state'.player.activeEffects)]
                   IN  /\ new.type = "damage_multiplier"
                       /\ new.value = 2
                       /\ new.remainingDuration = 1
           ELSE state'.player.activeEffects = state.player.activeEffects
      /\ \A i \in 1..Len(state'.player.activeEffects) :
           state'.player.activeEffects[i].remainingDuration >= 1
    ]_vars

\* a kill has used up one of two effects and left the other with one attack to go
C16_Witness ==
  /\ result.combat.killed
  /\ Len(state.player.activeEffects) = 1
  /\ state.player.activeEffects[1].remainingDuration = 1

\* the entities of dg standing on tile p, by id
IdsOn(dg, p) == { dg.entities[i].id : i \in { j \in 1..Len(dg.entities) :
                                               dg.entities[j].position = p } }

\* C17: movePlayer resolves the destination in the order bounds, wall, enemy,
\* stairs, item, plain move. With an enemy on the tile the call is an attack
\* only: no descent, no pickup, the player stays, and the stairs or item on the
\* tile stay. With the stairs and no enemy it is a descent, and nothing is picked
\* up. With an item only it is a pickup; otherwise a plain move.
C17_ResolutionOrder ==
  [][ IsMoveCall =>
        IF ~TileInBounds(TargetTile) THEN result'.message = "Out of bounds"
        ELSE IF dungeon.tiles[TargetTile.y][TargetTile.x] = WALL
        THEN result'.message = "There is a wall there"
        ELSE IF EntitiesOn(TargetTile, "enemy") # {}
        THEN /\ result'.message = "attack" /\ result'.combat.present
             /\ state'.currentFloor = state.currentFloor
             /\ state'.player.position = state.player.position
             /\ dungeon'.tiles = dungeon.tiles
             /\ \A i \in EntitiesOn(TargetTile, "stairs") \cup EntitiesOn(TargetTile, "item") :
                  dungeon.entities[i].id \in IdsOn(dungeon', TargetTile)
             /\ Len(state'.player.activeEffects) <= Len(state.player.activeEffects)
        ELSE IF EntitiesOn(TargetTile, "stairs") # {}
        THEN /\ result'.message = "Descended" /\ ~result'.combat.present
             /\ state'.currentFloor = state.currentFloor + 1
             /\ state'.player.stats = state.player.stats
             /\ state'.player.activeEffects = state.player.activeEffects
        ELSE IF EntitiesOn(TargetTile, "item") # {}
        THEN /\ result'.message = "pickup" /\ ~result'.combat.present
             /\ state'.currentFloor = state.currentFloor
             /\ state'.player.position = TargetTile
             /\ PickedItem.id \notin IdsOn(dungeon', TargetTile)
        ELSE /\ result'.message = "" /\ ~result'.combat.present
             /\ state'.currentFloor = state.currentFloor
             /\ state'.player.position = TargetTile
             /\ Len(dungeon'.entities) = Len(dungeon.entities)
    ]_vars

\* the player has attacked an enemy that stands on the stairs and survived: the
\* player is still on the same floor next to the stairs, and no other enemy is
\* next to the player
C17_Witness ==
  /\ result.combat.present /\ ~result.combat.killed
  /\ \E i, j \in 1..Len(dungeon.entities) :
       /\ dungeon.entities[i].type = "enemy"
       /\ dungeon.entities[j].type = "stairs"
       /\ dungeon.entities[i].position = dungeon.entities[j].position
       /\ getDistanceSquared(dungeon.entities[i].position, state.player.position) = 1
       /\ \A k \in 1..Len(dungeon.entities) :
            ( /\ dungeon.entities[k].type = "enemy"
              /\ getDistanceSquared(dungeon.entities[k].position,
                                    state.player.position) = 1 ) => k = i

\* C18: while the player's health is <= 0 every keyboard and pointer event is
\* dropped without an engine call: state (stats, position, floor) and dungeon
\* stay as they are and the player stays dead, until a new game or a save-code
\* load puts a fresh engine in place.
C18_DeadAcceptsNoInput ==
  [][ (state.player.stats.health <= 0 /\ input' \notin {"newGame", "load"}) =>
        /\ state' = state
        /\ dungeon' = dungeon
        /\ result' = NoResult
        /\ trace' = << >>
        /\ state'.player.stats.health <= 0
    ]_vars

\* a click or tap has been dropped while the player lay dead next to a live enemy
C18_Witness ==
  /\ state.player.stats.health <= 0
  /\ input = "pointer"
  /\ result = NoResult
  /\ \E i \in 1..Len(dungeon.entities) :
       /\ dungeon.entities[i].type = "enemy"
       /\ getDistanceSquared(dungeon.entities[i].position, state.player.position) = 1

----------------------------------------------------------------------------
\* the dungeon a generator created for the sub-seed (seed, floor) returns for that floor
DirectGeneration == generate(<<state.seed, state.currentFloor>>, state.currentFloor)

\* the engine holds a dungeon it has just generated: nothing was handled since
\* construction, or the last call was a descent
FreshlyGenerated == inputs = 0 \/ result.message = "Descended"

----------------------------------------------------------------------------
\* the non-Wall tiles of dg
OpenTiles(dg) == WalkableTiles(dg, {}, Pos(0, 0))

\* the tiles reached from the frontier by 4-directional steps over the tiles of open
RECURSIVE Region(_, _, _)
Region(frontier, seen, open) ==
  LET next == (UNION { Adjacent(q) : q \in frontier } \cap open) \ seen
  IN  IF next = {} THEN seen ELSE Region(next, seen \cup next, open)

RegionOf(dg, p) == Region({<<p.x, p.y>>}, {<<p.x, p.y>>}, OpenTiles(dg))

RoomTiles(room) ==
  (room.x..(room.x + room.width - 1)) \X (room.y..(room.y + room.height - 1))

AcceptedRooms == generateRooms(<<state.seed, state.currentFloor>>)

\* C20: on a generated floor with at least one accepted room, the tiles reached
\* from the player's spawn tile by 4-directional steps over non-Wall tiles are
\* all the Floor tiles of the floor: every tile of every carved room, every
\* corridor tile, and the stairs tile among them.
C20_Connectivity ==
  Len(AcceptedRooms) >= 1 =>
    LET region == RegionOf(dungeon, state.player.position)
    IN  /\ dungeon.tiles[state.player.position.y][state.player.position.x] = FLOOR
        /\ region = OpenTiles(dungeon)
        /\ \A i \in 1..Len(AcceptedRooms) : RoomTiles(AcceptedRooms[i]) \subseteq region
        /\ \E i \in 1..Len(dungeon.entities) :
             /\ dungeon.entities[i].type = "stairs"
             /\ <<dungeon.entities[i].position.x, dungeon.entities[i].position.y>> \in region

\* a loaded floor with three rooms whose corridors both turn a corner, and on
\* which some corridor tile belongs to no room
C20_Witness ==
  /\ input = "load"
  /\ state.seed = LayoutSeed
  /\ Len(AcceptedRooms) = 3
  /\ \A i \in 1..2 :
       /\ getRoomCenter(AcceptedRooms[i]).x # getRoomCenter(AcceptedRooms[i + 1]).x
       /\ getRoomCenter(AcceptedRooms[i]).y # getRoomCenter(AcceptedRooms[i + 1]).y
  /\ OpenTiles(dungeon) # UNION { RoomTiles(AcceptedRooms[i]) : i \in 1..3 }
  /\ RegionOf(dungeon, state.player.position) = OpenTiles(dungeon)

----------------------------------------------------------------------------
\* C21: generation always accepts at least one room, so the floor has a Floor
\* tile, and the player stands on a Floor tile in every state: after
\* construction (new or restored) and after a descent it is the first Floor
\* tile of the row-major scan, never the default (0, 0), which is a Wall.
C21_PlayerOnFloor ==
  /\ Len(AcceptedRooms) >= 1
  /\ OpenTiles(dungeon) # {}
  /\ dungeon.tiles[0][0] = WALL
  /\ dungeon.tiles[state.player.position.y][state.player.position.x] = FLOOR
  /\ FreshlyGenerated => IsFirstFloorTile(dungeon, state.player.position)

\* a game whose first room does not touch the top rows has come down the stairs
\* and stands on the first Floor tile of the new floor
C21_Witness ==
  /\ result.message = "Descended"
  /\ inputs > 1
  /\ state.player.position # Pos(0, 0)
  /\ Len(AcceptedRooms) >= 2
  /\ IsFirstFloorTile(dungeon, state.player.position)

----------------------------------------------------------------------------
\* the tiles of a room and the ring of tiles around it
PaddedTiles(room) ==
  ((room.x - 1)..(room.x + room.width)) \X ((room.y - 1)..(room.y + room.height))

\* at least one whole column or one whole row of tiles lies between the rooms
Separated(a, b) ==
  \/ a.x + a.width < b.x
  \/ b.x + b.width < a.x
  \/ a.y + a.height < b.y
  \/ b.y + b.height < a.y

SubSeed == <<state.seed, state.currentFloor>>

\* C22: the padded box of an accepted room (the room and the ring of tiles
\* around it) contains no tile of another accepted room, so two accepted rooms
\* share no tile and are separated by at least one tile along x or y. The
\* accepted rooms are candidates of the 30 attempts, and every candidate that
\* was not accepted has a padded box that meets an accepted room: it was
\* discarded, and nothing was drawn in its place.
C22_RoomsApart ==
  LET rooms == AcceptedRooms
      candidates == { Candidate(SubSeed, k) : k \in 0..(attempts - 1) }
      accepted == { rooms[i] : i \in 1..Len(rooms) }
  IN  /\ \A i, j \in 1..Len(rooms) :
           i # j => /\ PaddedTiles(rooms[i]) \cap RoomTiles(rooms[j]) = {}
                    /\ RoomTiles(rooms[i]) \cap RoomTiles(rooms[j]) = {}
                    /\ Separated(rooms[i], rooms[j])
      /\ accepted \subseteq candidates
      /\ Len(rooms) <= attempts
      /\ \A c \in candidates \ accepted :
           \E r \in accepted : PaddedTiles(c) \cap RoomTiles(r) # {}

\* a loaded floor with two accepted rooms one wall tile apart, and a discarded
\* candidate that shares no tile with an accepted room but touches one
C22_Witness ==
  /\ input = "load"
  /\ \E i, j \in 1..Len(AcceptedRooms) :
       /\ AcceptedRooms[i].x + AcceptedRooms[i].width + 1 = AcceptedRooms[j].x
       /\ AcceptedRooms[i].y = AcceptedRooms[j].y
  /\ \E k \in 0..(attempts - 1) :
       /\ \A i \in 1..Len(AcceptedRooms) :
            RoomTiles(Candidate(SubSeed, k)) \cap RoomTiles(AcceptedRooms[i]) = {}
       /\ \E i \in 1..Len(AcceptedRooms) :
            AcceptedRooms[i].x + AcceptedRooms[i].width = Candidate(SubSeed, k).x

----------------------------------------------------------------------------
EntitiesOfType(dg, type) ==
  { i \in 1..Len(dg.entities) : dg.entities[i].type = type }

\* C23: a generated floor holds exactly one stairs entity; it stands on the
\* tile (x + floor(width / 2), y + floor(height / 2)) of the last accepted room,
\* which is a Floor tile of that room (of the only room when one was accepted).
C23_Stairs ==
  LET rooms == AcceptedRooms
      last == rooms[Len(rooms)]
  IN  /\ Cardinality(EntitiesOfType(dungeon, "stairs")) = 1
      /\ \A i \in EntitiesOfType(dungeon, "stairs") :
           /\ dungeon.entities[i].position =
                Pos(last.x + (last.width \div 2), last.y + (last.height \div 2))
           /\ <<dungeon.entities[i].position.x, dungeon.entities[i].position.y>>
                \in RoomTiles(last)
           /\ dungeon.tiles[dungeon.entities[i].position.y][dungeon.entities[i].position.x]
                = FLOOR
           /\ dungeon.entities[i].id = <<"stairs", 0>>

\* a loaded floor whose last accepted room, of odd width, is not the first one
\* and holds the stairs
C23_Witness ==
  /\ input = "load"
  /\ Len(AcceptedRooms) = 3
  /\ AcceptedRooms[3].width = 5
  /\ \E i \in EntitiesOfType(dungeon, "stairs") :
       dungeon.entities[i].position = Pos(AcceptedRooms[3].x + 2, AcceptedRooms[3].y + 2)

----------------------------------------------------------------------------
C24_WitnessFloorCap ==
  /\ input = "load"
  /\ Len(AcceptedRooms) - 1 > 3 + 2 * state.currentFloor
  /\ Cardinality(EntitiesOfType(dungeon, "enemy")) = 3 + 2 * state.currentFloor

----------------------------------------------------------------------------
\* the state of the generator's item loop when it ended on the floor in play
ItemLoop == entityPhase(SubSeed, AcceptedRooms, state.currentFloor)

ItemsPlaced == Cardinality(EntitiesOfType(dungeon, "item"))

\* the items of the floor are item-0 .. item-(n - 1), at the end of the entity list
ItemsNumbered ==
  \A n \in 0..(ItemsPlaced - 1) :
    LET item == dungeon.entities[Len(dungeon.entities) - ItemsPlaced + 1 + n]
    IN  item.type = "item" /\ item.id = <<"item", n>>

\* C25 as claimed: the desired item count is min(2 + floor(f / 2), R - 1) with R
\* the number of accepted rooms; that many items are placed, and fewer only
\* when 10 x desired placement attempts were used up.
C25_ItemsRoomsLessOne ==
  LET desired == Min(2 + (state.currentFloor \div 2), Len(AcceptedRooms) - 1)
  IN  \/ ItemsPlaced = desired
      \/ ItemsPlaced < desired /\ ItemLoop.tries >= 10 * desired

\* C25 as amended: the desired item count is min(2 + floor(f / 2), R - 2), one
\* less than the R - 1 rooms an item can be placed in (no item with R <= 2);
\* exactly that many items are placed, numbered in order, unless attempts
\* collide, and fewer are placed only when all 10 x desired attempts were made.
C25_ItemsNonSpawnRoomsLessOne ==
  LET desired == Max(0, Min(2 + (state.currentFloor \div 2), Len(AcceptedRooms) - 2))
  IN  /\ ItemsPlaced <= desired
      /\ ItemsNumbered
      /\ ItemLoop.tries <= 10 * desired
      /\ ItemLoop.tries >= ItemsPlaced
      /\ ItemsPlaced < desired => ItemLoop.tries = 10 * desired
      /\ ItemLoop.tries = ItemsPlaced => ItemsPlaced = desired

\* a loaded floor on which some attempts collided and every desired item was
\* placed all the same, the floor number deciding the count
C25_Witness ==
  /\ input = "load"
  /\ 2 + (state.currentFloor \div 2) < Len(AcceptedRooms) - 2
  /\ ItemsPlaced = 2 + (state.currentFloor \div 2)
  /\ ItemLoop.tries > ItemsPlaced

\* a loaded floor on which the attempts ran out before every item was placed
C25_WitnessExhausted ==
  /\ input = "load"
  /\ ItemsPlaced > 0
  /\ ItemsPlaced < Min(2 + (state.currentFloor \div 2), Len(AcceptedRooms) - 2)
  /\ ItemLoop.tries = 10 * Min(2 + (state.currentFloor \div 2), Len(AcceptedRooms) - 2)

----------------------------------------------------------------------------
\* the tiles strictly inside a room
InnerTiles(room) ==
  ((room.x + 1)..(room.x + room.width - 2)) \X ((room.y + 1)..(room.y + room.height - 2))

\* C26: every item of a generated floor lies strictly inside an accepted room
\* other than the first, on a tile of no entity placed before it (the stairs,
\* an enemy or an earlier item), and its pickup is one of the configured ones.
C26_ItemPlacement ==
  LET rooms == AcceptedRooms
  IN  \A i \in EntitiesOfType(dungeon, "item") :
        LET at == <<dungeon.entities[i].position.x, dungeon.entities[i].position.y>>
        IN  /\ \E j \in 2..Len(rooms) : at \in InnerTiles(rooms[j])
            /\ at \notin RoomTiles(rooms[1])
            /\ dungeon.tiles[at[2]][at[1]] = FLOOR
            /\ \A k \in 1..(i - 1) :
                 dungeon.entities[k].position # dungeon.entities[i].position
            /\ PickupConfig(dungeon.entities[i].itemId) # 0

\* a loaded floor on which the item loop skipped colliding candidates and
\* still placed every item it wanted, one of them in the stairs room
C26_Witness ==
  /\ input = "load"
  /\ ItemLoop.tries > ItemsPlaced
  /\ ItemsPlaced >= 2
  /\ ItemsPlaced = itemCount(AcceptedRooms, state.currentFloor)
  /\ \E i \in EntitiesOfType(dungeon, "item") :
       <<dungeon.entities[i].position.x, dungeon.entities[i].position.y>>
         \in InnerTiles(AcceptedRooms[Len(AcceptedRooms)])

----------------------------------------------------------------------------
\* the keys findPath may step on: inside the grid, not Wall, and either the goal
\* or admitted by the callback, or without a callback free of enemies
SearchKeys(dg, goal, cb) ==
  { q \in FloorKeys(dg) :
      \/ q = posKey(goal)
      \/ cb.given /\ q \in cb.allowed
      \/ ~cb.given /\ \A i \in 1..Len(dg.entities) :
                        dg.entities[i].type = "enemy" => posKey(dg.entities[i].position) # q }

\* breadth-first distance from start to goal over SearchKeys, -1 when there is none
SearchDistance(dg, start, goal, cb) ==
  PathLength({ posKey(start) }, { posKey(start) }, posKey(goal), SearchKeys(dg, goal, cb), 0)

\* the straight corridors and their two ends
IsCorridor(n, across, from, to) ==
  /\ dungeon = CorridorMap(n, across)
  /\ { from, to } = IF across THEN { Pos(1, 1), Pos(n, 1) } ELSE { Pos(1, 1), Pos(1, n) }
  /\ (from = to => n = 1)

\* C27: the path returned by findPath leaves out the start, ends at the goal,
\* moves one 4-directional step at a time over walkable tiles, and has as many
\* steps as the breadth-first distance under the same walkability rule; it is
\* empty exactly when start = goal, the goal is a Wall or off the grid, or no
\* walkable path exists; from end to end of a straight free corridor of N
\* tiles it has N - 1 steps.
C27_ShortestPath ==
  input = "findPath" =>
    LET start == state.start
        goal == trace[1]
        cb == trace[2]
        distance == SearchDistance(dungeon, start, goal, cb)
    IN  /\ \A i \in 1..Len(result) :
             /\ result[i] # start
             /\ posKey(result[i]) \in SearchKeys(dungeon, goal, cb)
             /\ manhattanDistance(IF i = 1 THEN start ELSE result[i - 1], result[i]) = 1
        /\ Len(result) > 0 => result[Len(result)] = goal
        /\ (Len(result) = 0) <=>
             \/ start = goal
             \/ posKey(goal) \notin FloorKeys(dungeon)
             \/ distance = -1
        /\ Len(result) > 0 => Len(result) = distance
        /\ \A n \in 1..MaxCorridor, across \in BOOLEAN :
             IsCorridor(n, across, start, goal) => Len(result) = n - 1

\* a path that goes round a wall and an enemy: four steps longer than the
\* straight-line distance
C27_Witness ==
  /\ input = "findPath"
  /\ ~trace[2].given
  /\ dungeon.entities # << >>
  /\ Len(result) = manhattanDistance(state.start, trace[1]) + 4

\* the end-to-end path of the longest corridor
C27_WitnessCorridor ==
  /\ input = "findPath"
  /\ IsCorridor(MaxCorridor, TRUE, state.start, trace[1])
  /\ Len(result) = MaxCorridor - 1

----------------------------------------------------------------------------
\* the keys the flood fill may step on: inside the grid, not Wall, and admitted
\* by the callback, or without a callback free of enemies
FillKeys(dg, cb) ==
  { q \in FloorKeys(dg) :
      \/ cb.given /\ q \in cb.allowed
      \/ ~cb.given /\ \A i \in 1..Len(dg.entities) :
                        dg.entities[i].type = "enemy" => posKey(dg.entities[i].position) # q }

\* breadth-first distance from start to the key q over FillKeys, -1 when there is none
FillDistance(dg, start, q, cb) ==
  PathLength({ posKey(start) }, { posKey(start) }, q, FillKeys(dg, cb), 0)

\* the keys within the maximum distance of start, the start left out
WithinDistance(dg, start, md, cb) ==
  { q \in FillKeys(dg, cb) \ { posKey(start) } :
      /\ FillDistance(dg, start, q, cb) # -1
      /\ md.given => FillDistance(dg, start, q, cb) <= md.value }

\* C28: findReachableTiles returns exactly the tiles other than the start whose
\* shortest 4-directional distance from the start over walkable tiles is at
\* most maxDistance (every such tile when no maxDistance is passed); the start
\* is never in the result, and neither is a Wall or a tile off the grid.
C28_ReachableSet ==
  input = "findReachableTiles" =>
    /\ result = WithinDistance(dungeon, state.start, trace[1], trace[2])
    /\ posKey(state.start) \notin result
    /\ result \subseteq FloorKeys(dungeon)

\* a fill cut off by the maximum distance: a tile at distance 2 is in the result,
\* a reachable tile further away is not, and an enemy stands on the grid
C28_Witness ==
  /\ input = "findReachableTiles"
  /\ trace[1] = [given |-> TRUE, value |-> 2]
  /\ ~trace[2].given
  /\ dungeon.entities # << >>
  /\ \E q \in result : FillDistance(dungeon, state.start, q, trace[2]) = 2
  /\ \E q \in FillKeys(dungeon, trace[2]) \ result :
       FillDistance(dungeon, state.start, q, trace[2]) > 2

----------------------------------------------------------------------------
\* C29: the flood fill and the goal-directed search agree on walkability: for
\* a tile g other than the start, with the same callback and no maximum
\* distance, g is in findReachableTiles(start) exactly when findPath(start, g)
\* is not empty, also when an enemy stands on g.
C29_SameWalkability ==
  (input = "findPath" /\ trace[1] # state.start) =>
    (posKey(trace[1]) \in findReachableTiles(state.start, dungeon, NoMaxDistance, trace[2])
       <=> Len(result) > 0)

\* the two agree on every goal the flood fill's own rule admits
C29_AgreeOnAdmittedGoals ==
  (input = "findPath" /\ trace[1] # state.start
     /\ posKey(trace[1]) \in FillKeys(dungeon, trace[2])) =>
    (posKey(trace[1]) \in findReachableTiles(state.start, dungeon, NoMaxDistance, trace[2])
       <=> Len(result) > 0)

----------------------------------------------------------------------------
\* the stats of a new game's player after levelling up to the given level
RECURSIVE LevelledTo(_)
LevelledTo(level) ==
  IF level <= 1 THEN createNewGameState("").player.stats
  ELSE checkLevelUp([LevelledTo(level - 1) EXCEPT !.experience = (level - 1) * ExperiencePerLevel])

\* C30: in every reachable state of a new or a restored game the player's
\* maxHealth is 100 + 20 x (level - 1), the attack 5 + 2 x (level - 1) and the
\* defense 2 + (level - 1), which are the stats levelling up from a new game
\* to that level gives; a new game starts at level 1 with 100 health on floor 1.
C30_StatsMatchLevel ==
  LET stats == state.player.stats
  IN  /\ stats.maxHealth = 100 + 20 * (stats.level - 1)
      /\ stats.attack = 5 + 2 * (stats.level - 1)
      /\ stats.defense = 2 + (stats.level - 1)
      /\ stats.level >= 1 =>
           /\ stats.maxHealth = LevelledTo(stats.level).maxHealth
           /\ stats.attack = LevelledTo(stats.level).attack
           /\ stats.defense = LevelledTo(stats.level).defense

----------------------------------------------------------------------------
\* the game a decoded code gives carries the level, experience, floor, seed and
\* timestamp of st and nothing else of it: full health, stats of the level, no
\* effect, the player at the origin until the floor is generated anew
SameProgress(st, game) ==
  /\ game.player.stats.level = st.player.stats.level
  /\ game.player.stats.experience = st.player.stats.experience
  /\ game.currentFloor = st.currentFloor
  /\ game.seed = st.seed
  /\ game.timestamp = st.timestamp
  /\ game.player.stats.health = game.player.stats.maxHealth
  /\ game.player.stats.maxHealth = 100 + 20 * (st.player.stats.level - 1)
  /\ game.player.activeEffects = << >>
  /\ game.player.position = Pos(0, 0)

DecodesTo(st, decoded) == ~decoded.null /\ SameProgress(st, DecodedGame(decoded.data))

RoundTrip(st, encoded) == ~encoded.threw /\ DecodesTo(st, decodeSaveCode(encoded.code))

\* C31: for every game state with level >= 1, experience >= 0, floor >= 1 and
\* a seed, decodeSaveCode(encodeGameState(state)) is not null and carries the
\* same level, experience, floor, seed and timestamp, and nothing else of the
\* state: health, effects and position are those of a restored game.
C31_RoundTrip ==
  (state.player.stats.level >= 1 /\ state.player.stats.experience >= 0
     /\ state.currentFloor >= 1) =>
    RoundTrip(state, encodeGameState(state, SeedText(state.seed), state.timestamp))

\* the round trip of every state whose seed is made of characters up to U+00FF
C31_RoundTripOfByteSeeds ==
  (\A i \in 1..Len(SeedText(state.seed)) : SeedText(state.seed)[i] <= 255) =>
    RoundTrip(state, encodeGameState(state, SeedText(state.seed), state.timestamp))

\* the code of a game hurt in play is shown
C31_WitnessPlayed ==
  /\ input = "save"
  /\ ~result.threw
  /\ state.player.stats.health < state.player.stats.maxHealth
  /\ state.player.position # Pos(0, 0)

----------------------------------------------------------------------------
\* the code does not consist of exactly two parts, or its second part is not
\* the checksum of its first
Malformed(parts) == Len(parts) # 2 \/ simpleChecksum(parts[1]) # parts[2]

\* C32: a code that does not consist of exactly two '-'-separated parts, or
\* whose checksum part differs from the checksum of its encoded part, is
\* rejected: decodeSaveCode returns null, validateSaveCode false, and loading
\* it reports an invalid code and leaves the game state and the dungeon as
\* they were.
C32_RejectedCodes ==
  [][(input' = "load" /\ Malformed(split(result'.code, 1, << << >> >>))) =>
       /\ decodeSaveCode(result'.code).null
       /\ ~validateSaveCode(result'.code)
       /\ result'.message = "Invalid save code!"
       /\ UNCHANGED <<state, dungeon>>]_vars

\* a shown code was entered with its checksum altered, in a game that had moved
\* on from its start, and was refused
C32_Witness ==
  /\ input = "load"
  /\ result.message = "Invalid save code!"
  /\ Len(split(result.code, 1, << << >> >>)) = 2
  /\ ~atob(split(result.code, 1, << << >> >>)[1]).threw
  /\ parse(atob(split(result.code, 1, << << >> >>)[1]).text).ok
  /\ state.player.position # FirstFloorTile(dungeon, state.player.position)

\* a code of three parts was refused
C32_WitnessParts ==
  /\ input = "load"
  /\ result.message = "Invalid save code!"
  /\ Len(split(result.code, 1, << << >> >>)) = 3

----------------------------------------------------------------------------
\* the entities of a floor by id
EntityIds(dg) == { dg.entities[i].id : i \in 1..Len(dg.entities) }

EntityOf(dg, id) ==
  dg.entities[CHOOSE i \in 1..Len(dg.entities) : dg.entities[i].id = id]

\* the entities the step took from the list
Departed == EntityIds(dungeon) \ EntityIds(dungeon')

\* an enemy left because the player's attack killed it on the tile stepped at;
\* an item left because the player stepped onto it
LeftByRule(e) ==
  \/ /\ e.type = "enemy"
     /\ result'.message = "attack"
     /\ result'.combat.killed
     /\ e.position = Pos(state.player.position.x + KeyDx(input'),
                         state.player.position.y + KeyDy(input'))
  \/ /\ e.type = "item"
     /\ result'.message = "pickup"
     /\ e.position = state'.player.position

\* what an entity that stays may differ in: an enemy in health and position
SameBut(e, f) ==
  IF e.type = "enemy"
  THEN [f EXCEPT !.position = e.position, !.stats.health = e.stats.health] = e
  ELSE f = e

\* C33: within one floor the tile grid never changes and the entity list
\* never gains an entity; an entity leaves the list only when an enemy dies
\* from a player attack or an item is picked up; stairs and items never
\* change position; enemy health and enemy position are the only fields that
\* change in place.
C33_FloorFrame ==
  [][state'.currentFloor = state.currentFloor =>
       /\ dungeon'.tiles = dungeon.tiles
       /\ dungeon'.width = dungeon.width /\ dungeon'.height = dungeon.height
       /\ EntityIds(dungeon') \subseteq EntityIds(dungeon)
       /\ Len(dungeon'.entities) = Cardinality(EntityIds(dungeon'))
       /\ Cardinality(Departed) <= 1
       /\ \A id \in Departed : LeftByRule(EntityOf(dungeon, id))
       /\ \A id \in EntityIds(dungeon') :
            SameBut(EntityOf(dungeon, id), EntityOf(dungeon', id))]_vars

\* an enemy was killed while another enemy of the floor stayed in the list
C33_Witness ==
  /\ result.message = "attack" /\ result.combat.killed
  /\ \E i \in 1..Len(dungeon.entities) : dungeon.entities[i].type = "enemy"
  /\ \E i \in 1..Len(dungeon.entities) : dungeon.entities[i].type = "item"

\* an item was picked up and an enemy moved in the same call
C33_WitnessPickup ==
  /\ result.message = "pickup"
  /\ \E k \in 1..Len(trace) : trace[k].ev = "enemyMove"

----------------------------------------------------------------------------
\* no position occurs twice in a sequence
NoRepeat(seq) == \A i, j \in 1..Len(seq) : seq[i] = seq[j] => i = j

\* the search has taken each tile from its queue at most once, marked each
\* before queuing it, and holds no tile twice
SearchVisitsOnce ==
  state.loop = "search" =>
    /\ NoRepeat(trace \o state.b.queue)
    /\ Len(trace) <= dungeon.width * dungeon.height
    /\ \A i \in 1..Len(trace) : trace[i] \in state.b.visited
    /\ \A i \in 1..Len(state.b.queue) : state.b.queue[i] \in state.b.visited

\* the item loop has made at most ten attempts for each item it set out to place
ItemAttemptsLimited ==
  state.loop = "items" =>
    /\ state.g.tries = IF result.done THEN inputs - 1 ELSE inputs
    /\ state.g.tries <= 10 * state.itemCount
    /\ state.g.itemsPlaced <= state.itemCount

\* C34: the search of findNextStepTowards and the item loop of
\* generateEntities terminate: the search takes each grid tile from its queue
\* at most once, the item loop makes at most 10 x itemCount attempts, also
\* when every tile it draws is occupied, and both loops are left in the end.
C34_LoopsTerminate ==
  /\ [](SearchVisitsOnce /\ ItemAttemptsLimited)
  /\ <>(result.done)

\* the item loop was left after 10 x itemCount attempts that all drew an
\* occupied tile
C34_Witness ==
  /\ state.loop = "items" /\ result.done
  /\ state.itemCount > 0
  /\ state.g.itemsPlaced = 0
  /\ state.g.tries = 10 * state.itemCount

\* a search on a generated floor was left with the target found after more
\* than twenty tiles
C34_WitnessSearch ==
  /\ state.loop = "search" /\ result.done
  /\ dungeon.width = GridWidth
  /\ Len(trace) > 20
  /\ trace[Len(trace)] = state.target

\* a search was left with its queue exhausted and the target not found
C34_WitnessExhausted ==
  /\ state.loop = "search" /\ result.done
  /\ state.target \notin state.b.visited
  /\ Len(trace) > 3

----------------------------------------------------------------------------
\* the step is a press of the space bar while the player is alive
IsWaitPress == input' = " " /\ inputs' = inputs + 1 /\ isPlayerAlive(state)

\* C35: pressing the space bar while the player is alive skips the player's
\* turn: the player stays where it is and the enemy turn runs once, so the
\* game and the floor after the press are those the enemy turn leaves.
C35_WaitRunsEnemyTurn ==
  [][IsWaitPress =>
       /\ state'.player.position = state.player.position
       /\ state' = enemyTurn(World).state
       /\ dungeon' = enemyTurn(World).dungeon]_vars

\* what the handler does on the space bar: nothing of the game or the floor changes
C35_WaitChangesNothing ==
  [][IsWaitPress => UNCHANGED <<state, dungeon>>]_vars

\* the space bar was pressed with an enemy in range that had a step to take
C35_Witness ==
  /\ input = " "
  /\ isPlayerAlive(state)
  /\ enemyTurn(World).dungeon # dungeon

----------------------------------------------------------------------------
\* the accepted rooms a tile lies in (by index)
RoomsAt(p) == { r \in 1..Len(AcceptedRooms) : <<p.x, p.y>> \in RoomTiles(AcceptedRooms[r]) }

\* the enemies and items of the floor that stand in one of the given rooms
PlacedIn(rs) ==
  { i \in 1..Len(dungeon.entities) :
      /\ dungeon.entities[i].type \in { "enemy", "item" }
      /\ RoomsAt(dungeon.entities[i].position) \cap rs # {} }

\* C36: on every generated floor the player's start tile, the first Floor
\* tile in row-major order, lies inside the first accepted room, and no enemy
\* and no item is generated in the room where the player starts.
C36_StartsInSpawnRoom ==
  state.player.position = FirstFloorTile(dungeon, Pos(0, 0)) =>
    /\ 1 \in RoomsAt(state.player.position)
    /\ PlacedIn(RoomsAt(state.player.position)) = {}

\* what placement keeps to: no enemy and no item in the first accepted room
C36_FirstRoomEmpty == PlacedIn({1}) = {}

\* the player starts in a room other than the first, next to an enemy placed there
C36_Witness ==
  /\ state.player.position = FirstFloorTile(dungeon, Pos(0, 0))
  /\ 1 \notin RoomsAt(state.player.position)
  /\ PlacedIn(RoomsAt(state.player.position)) # {}

----------------------------------------------------------------------------
\* C37: in every reachable state no two enemies of the floor stand on the
\* same tile and no enemy stands on the player's tile.
C37_ExclusiveTiles ==
  \A i \in EntitiesOfType(dungeon, "enemy") :
    /\ dungeon.entities[i].position # state.player.position
    /\ \A j \in EntitiesOfType(dungeon, "enemy") :
         dungeon.entities[i].position = dungeon.entities[j].position => i = j

\* an enemy turn in which one enemy struck the player and another, on a tile
\* next to it, moved
C37_Witness ==
  /\ \E k \in 1..Len(trace) : trace[k].ev = "enemyAttack"
  /\ \E k \in 1..Len(trace) : trace[k].ev = "enemyMove"
  /\ \E i, j \in EntitiesOfType(dungeon, "enemy") :
       /\ manhattanDistance(dungeon.entities[i].position, state.player.position) = 1
       /\ manhattanDistance(dungeon.entities[i].position, dungeon.entities[j].position) = 1

----------------------------------------------------------------------------
\* the tile is on the map and is not a Wall
OnOpenTile(p) ==
  /\ p.x >= 0 /\ p.x < dungeon.width
  /\ p.y >= 0 /\ p.y < dungeon.height
  /\ dungeon.tiles[p.y][p.x] # WALL

\* the outermost ring of the grid
RingKeys ==
  { q \in (0..(dungeon.width - 1)) \X (0..(dungeon.height - 1)) :
      q[1] = 0 \/ q[1] = dungeon.width - 1 \/ q[2] = 0 \/ q[2] = dungeon.height - 1 }

\* C38: in every reachable state the player and every entity of the floor
\* (stairs, enemies, items) stand on an in-bounds tile that is not a Wall;
\* the outermost ring of the grid is Wall, and no movePlayer call has
\* returned 'Out of bounds'.
C38_OnOpenTiles ==
  /\ OnOpenTile(state.player.position)
  /\ \A i \in 1..Len(dungeon.entities) : OnOpenTile(dungeon.entities[i].position)
  /\ \A q \in RingKeys : dungeon.tiles[q[2]][q[1]] = WALL
  /\ result.message # "Out of bounds"

\* the player, on a tile next to the ring, stepped at the ring and was refused
\* by the wall, on a floor where enemies have moved
C38_Witness ==
  /\ result.message = "There is a wall there"
  /\ <<state.player.position.x + KeyDx(input), state.player.position.y + KeyDy(input)>>
       \in RingKeys
  /\ \E i \in EntitiesOfType(dungeon, "enemy") :
       dungeon.entities[i].position \notin
         { generate(<<state.seed, state.currentFloor>>, state.currentFloor).entities[j].position :
             j \in 1..Len(generate(<<state.seed, state.currentFloor>>, state.currentFloor).entities) }

----------------------------------------------------------------------------
\* C39: in every reachable state the player's health is at most the
\* player's maxHealth, and every enemy in the floor's entity list has health
\* above 0.
C39_HealthBounds ==
  /\ state.player.stats.health <= state.player.stats.maxHealth
  /\ \A i \in EntitiesOfType(dungeon, "enemy") : dungeon.entities[i].stats.health > 0

\* the player attacked an enemy that survived with less than its full health
\* and struck back
C39_Witness ==
  /\ result.message = "attack" /\ ~result.combat.killed
  /\ state.player.stats.health < state.player.stats.maxHealth
  /\ \E i \in EntitiesOfType(dungeon, "enemy") :
       dungeon.entities[i].stats.health < dungeon.entities[i].stats.maxHealth

\* an enemy was killed and left the list
C39_WitnessKill ==
  /\ result.message = "attack" /\ result.combat.killed
  /\ Cardinality(EntitiesOfType(dungeon, "enemy")) <
       Cardinality(EntitiesOfType(
         generate(<<state.seed, state.currentFloor>>, state.currentFloor), "enemy"))

\* a health pickup was taken by a player who had been hurt
C39_WitnessPickup ==
  /\ result.message = "pickup"
  /\ state.player.stats.health < state.player.stats.maxHealth

----------------------------------------------------------------------------
\* the floor is as the generator left it
FreshFloor ==
  dungeon.entities = generate(<<state.seed, state.currentFloor>>, state.currentFloor).entities

\* the pairs of entities of the floor that stand on one tile
SharedTiles ==
  { p \in (1..Len(dungeon.entities)) \X (1..Len(dungeon.entities)) :
      /\ p[1] < p[2]
      /\ dungeon.entities[p[1]].position = dungeon.entities[p[2]].position }

\* C40: on a freshly generated floor no two entities stand on the same tile;
\* in particular no enemy is generated on the stairs tile, also when the
\* last accepted room receives an enemy.
C40_DistinctTiles == FreshFloor => SharedTiles = {}

\* what generation keeps to: the only entities that share a tile are the
\* stairs and the enemy of the last accepted room
C40_OnlyEnemyOnStairs ==
  FreshFloor =>
    \A p \in SharedTiles :
      /\ dungeon.entities[p[1]].type = "stairs"
      /\ dungeon.entities[p[2]].type = "enemy"
      /\ Len(AcceptedRooms) \in RoomsAt(dungeon.entities[p[2]].position)

\* a generated floor whose last room received an enemy, on the stairs tile
C40_Witness ==
  /\ FreshFloor
  /\ SharedTiles # {}

====
